---- MODULE Spec2Model ----
(***************************************************************************)
(* A model of the agent runtime of py-mono: the message queue              *)
(* (py_agent_core/message_queue.py), the agent loop                        *)
(* (pig_agent_core/agent.py, with the tool registry and tools it calls),   *)
(* the extension API (pig_agent_core/extensions.py), the session tree      *)
(* (pig_agent_core/session.py), the RPC server                             *)
(* (pig_agent_core/output_modes.py), the context files                     *)
(* (py_agent_core/context.py), the coding agent                            *)
(* (pig_coding_agent/agent.py, file_reference.py) and the dispatcher       *)
(* (pig_messenger/bot.py, session_manager.py).                             *)
(*                                                                         *)
(* Fifteen specifications share the variables:                             *)
(*   SpecQueue        the MessageQueue driven through its public methods   *)
(*   SpecAgent        one turn of Agent.run with an input thread enqueuing *)
(*   SpecTools        Agent.run over every kind of failing tool call       *)
(*   SpecTermination  Agent.run when every call returns, under fairness    *)
(*   SpecSession      a Session driven through its public methods          *)
(*   SpecBot          MessengerBot.handle_message for two messages         *)
(*   SpecRestart      the dispatcher restarted over the same workspace     *)
(*   SpecThreads      a MessageQueue drained while another thread adds     *)
(*   SpecExtensions   ExtensionAPI.on and emit                             *)
(*   SpecRegistry     ToolRegistry.register and unregister                 *)
(*   SpecFileRef      FileReferenceParser.resolve_file over references     *)
(*   SpecContext      ContextManager.build_system_prompt over the files    *)
(*   SpecRpc          RPCMode.run_server over the lines of its input       *)
(*   SpecCoding       one turn of CodingAgent.run_interactive              *)
(*   SpecPersist      Session.save while another reader loads the file     *)
(* Each leaves the variables of the other subsystems unchanged.            *)
(***************************************************************************)
EXTENDS Integers, Sequences, FiniteSets, TLC

VARIABLES
    \* ---- MessageQueue (message_queue.py:26-31)
    queue,           \* self.queue: list of QueuedMessage, oldest first
    steering_mode,   \* self.steering_mode
    followup_mode,   \* self.followup_mode
    \* ---- observation of the queue's last method call
    q_op,            \* name of the last queue method called
    q_before,        \* self.queue as it was when that call started
    q_returned,      \* the list that call returned
    \* ---- Agent (agent.py:42-60) and the frame of run() (agent.py:75-193)
    history,         \* self.history
    max_iterations,  \* self.max_iterations
    on_tool_start,   \* self.on_tool_start: "ok" (absent or returns) or "raises"
    on_tool_end,     \* self.on_tool_end:   "ok" (absent or returns) or "raises"
    check_queue,     \* run()'s check_queue argument
    pc,              \* where run() is: idle, loop, batch, done, raised
    iterations,      \* run()'s local counter
    tool_calls,      \* response.tool_calls of the response being handled
    next_call,       \* index in tool_calls of the call the for loop handles next
    tool_results,    \* run()'s local list tool_results
    returned,        \* the Response the outermost run() returned (its content)
    raised,          \* the exception that left run(), "none" if none
    \* ---- observation of the turn
    runs,            \* run() invocations of the turn (the nested ones included)
    turn_calls,      \* provider calls of the turn
    run_calls,       \* provider calls of the innermost run() invocation
    llm_input,       \* the messages argument of the last provider call
    answers,         \* kinds of the provider's answers in the innermost run()
    replies,         \* contents of the tool-free responses of the turn, in order
    batch_log,       \* what the last finished batch appended (tools, steering)
    failed,          \* executed tool calls of the innermost run() that failed
    emitted,         \* tool calls the provider has emitted in the turn
    enqueued,        \* the messages the input thread has enqueued, in order
    \* ---- Session and its SessionTree (session.py:26-30, 189-202)
    entries,         \* tree.entries: the SessionEntry values in insertion order
    current_id,      \* tree.current_id
    root_id,         \* tree.root_id
    auto_save,       \* session.auto_save
    file,            \* the session file: whether it exists, and its entry lines
    uuids,           \* uuid4 values drawn so far
    clock,           \* the time datetime.utcnow() last returned
    \* ---- observation of the session's last method call
    s_op,            \* name of the last Session method called
    s_before,        \* tree.entries as they were when that call started
    s_returned,      \* what that call returned (fork: the new session's tree)
    s_raised,        \* the exception that call raised, "none" if none
    s_ops,           \* calls so far other than plain appends
    \* ---- MessengerBot and its MultiPlatformSessionManager (bot.py:28-35,
    \*      session_manager.py:17-20); the bot's agent is `history`
    sessions,        \* session_manager.sessions: key -> Session object
    b_trees,         \* the tree of each Session object made by get_session
    b_auto,          \* the auto_save flag of each of these Session objects
    disk,            \* the files of the workspace, by path
    \* ---- one frame of handle_message per delivered message (bot.py:60-104)
    b_msg,           \* the message argument
    b_via,           \* how the adapter runs the handler: "task" or "thread"
    b_pc,            \* where the handler is
    b_session,       \* its local `session`
    b_response,      \* its local `response` (the content)
    b_failed,        \* whether it has entered its except clause
    b_outcome,       \* "running", then "returned" or "raised"
    \* ---- observation of the dispatcher
    b_sends,         \* the send_message calls made, in order
    b_llm_input,     \* the messages argument of each handler's provider call
    \* ---- the frame of one dequeuing call of the MessageQueue, run by the
    \*      agent's thread while the input thread enqueues
    dq_pc,           \* where the call is: idle, called, selected, evaluated, stored, returned
    dq_local,        \* its local list (steering, followup or messages)
    dq_rest,         \* the value of the right-hand side it is about to store
    \* ---- ExtensionAPI (extensions.py:21-23)
    event_handlers,  \* self._event_handlers: event -> list of handlers
    em_last,         \* the last emit call: its event, the handlers it called
                     \* in order, and the exception that left it
    \* ---- ToolRegistry (registry.py:10-12)
    reg_tools,       \* self._tools: the dict's (name, tool) items in dict order
    reg_last,        \* the last register / unregister call, the name it was
                     \* about, and whether that name was registered before it
    \* ---- FileReferenceParser (file_reference.py:10-16)
    fr_call,         \* the last resolve_file call: its argument, the tuple it
                     \* returned and the files it read
    \* ---- the frame of a Session.save whose file another party may read
    w_pending,       \* the lines save() has still to put in the file
    w_before,        \* the file as it was when that save() opened it
    \* ---- ContextManager (context.py:10-16) and the files around it
    ctx_files,       \* the SYSTEM.md files that exist, by place
    ctx_call,        \* the last build_system_prompt call: the files that
                     \* existed then and the prompt it returned
    \* ---- the processes that have run the dispatcher over the workspace
    managers,        \* MultiPlatformSessionManager objects constructed so far
    \* ---- RPCMode.run_server and its standard streams (output_modes.py:160-181)
    rpc_stdin,       \* the lines of the input, read or not
    rpc_read,        \* how many of them readline has returned
    rpc_stdout,      \* the lines written to the output
    rpc_pc           \* "serving", "stopped" once run_server has returned

qvars == <<queue, steering_mode, followup_mode>>
qobs  == <<q_op, q_before, q_returned>>
avars == <<history, max_iterations, on_tool_start, on_tool_end, check_queue, pc,
           iterations, tool_calls, next_call, tool_results, returned, raised>>
aobs  == <<runs, turn_calls, run_calls, llm_input, answers, replies, batch_log,
           failed, emitted, enqueued>>
svars == <<entries, current_id, root_id, auto_save, file, uuids, clock>>
sobs  == <<s_op, s_before, s_returned, s_raised, s_ops>>
bvars == <<sessions, b_trees, b_auto, disk, b_msg, b_via, b_pc, b_session,
           b_response, b_failed, b_outcome, b_sends, b_llm_input>>
dvars == <<dq_pc, dq_local, dq_rest>>
\* the variables of the smaller specifications
evars == <<event_handlers, em_last>>
rvars == <<reg_tools, reg_last>>
wvars == <<w_pending, w_before>>
cvars == <<ctx_files, ctx_call>>
pvars == <<rpc_stdin, rpc_read, rpc_stdout, rpc_pc>>
yvars == <<cvars, managers, pvars>>
xvars == <<dvars, evars, rvars, fr_call, wvars, yvars>>

-----------------------------------------------------------------------------
(* Bounds of the model *)

\* Longest queue SpecQueue builds.
MaxQueue == 3
\* Messages the input thread enqueues during SpecAgent.
MaxEnqueue == 2
\* The agent's max_iterations (constructor argument, agent.py:25).
MaxIterations == 2
\* Tool calls the provider emits in one turn, over all its responses.
MaxToolCalls == 2
\* Entries SpecSession puts in one tree.
MaxEntries == 12
\* Session calls other than plain appends in one behaviour of SpecSession.
MaxOps == 2
\* Handler registrations in one behaviour of SpecExtensions.
MaxHandlers == 3
\* Different tools of one name that SpecRegistry registers.
MaxVersions == 2
\* Path components of a file reference in SpecFileRef.
MaxRefLen == 3
\* Entries the session of SpecPersist appends.
MaxSaved == 4
\* Directories above the workspace that the walk upwards passes
MaxDepth == 2
\* SYSTEM.md files that exist at once
MaxCtxFiles == 3
\* Processes that run the dispatcher over the same workspace, one after
\* the other
MaxManagers == 2
\* Lines on the input of the RPC server
MaxLines == 4

-----------------------------------------------------------------------------
(* Sequence helpers *)

Last(s) == s[Len(s)]

Range(s) == {s[i] : i \in 1..Len(s)}

\* s is the concatenation of some sequence and t
EndsWith(s, t) ==
    /\ Len(t) <= Len(s)
    /\ SubSeq(s, Len(s) - Len(t) + 1, Len(s)) = t

-----------------------------------------------------------------------------
(* MessageQueue *)

STEERING == "steering"
FOLLOWUP == "followup"

QueuedMessage(content, type) == [content |-> content, type |-> type]

\* [m for m in self.queue if m.type == t]
OfType(q, t) == SelectSeq(q, LAMBDA m : m.type = t)

\* [m for m in self.queue if m.type != t]
NotOfType(q, t) == SelectSeq(q, LAMBDA m : m.type # t)

\* "Apply mode": the list a get_*_messages call returns
ApplyMode(msgs, mode) ==
    IF mode = "one-at-a-time" /\ msgs # <<>> THEN <<msgs[1]>> ELSE msgs

has_steering(q) == \E i \in 1..Len(q) : q[i].type = STEERING

has_followup(q) == \E i \in 1..Len(q) : q[i].type = FOLLOWUP

\* The text of the k-th message the input thread submits: every message gets
\* its own text, so that equal texts never hide a loss or a reordering.
Texts == <<"m1", "m2", "m3", "m4", "m5", "m6">>

\* MessageQueue.__init__; the two modes are attributes the owner may set
QueueInit ==
    /\ queue = <<>>
    /\ steering_mode \in {"one-at-a-time", "all"}
    /\ followup_mode \in {"one-at-a-time", "all"}

\* MessageQueue.add_steering
add_steering(message) ==
    /\ queue' = Append(queue, QueuedMessage(message, STEERING))
    /\ UNCHANGED <<steering_mode, followup_mode>>

\* MessageQueue.add_followup
add_followup(message) ==
    /\ queue' = Append(queue, QueuedMessage(message, FOLLOWUP))
    /\ UNCHANGED <<steering_mode, followup_mode>>

\* Mutant of get_steering_messages: the whole queue is emptied
get_steering_messages_ClearsQueue(q, mode) ==
    [queue  |-> <<>>,
     result |-> ApplyMode(OfType(q, STEERING), mode)]

\* Mutant of get_steering_messages: only the returned messages are removed
get_steering_messages_RemovesReturned(q, mode) ==
    LET steering == OfType(q, STEERING)
        result   == ApplyMode(steering, mode)
    IN  [queue  |-> SelectSeq(q, LAMBDA m : m \notin Range(result)),
         result |-> result]

\* MessageQueue.get_steering_messages: [queue |-> self.queue after, result |-> returned]
get_steering_messages(q, mode) ==
    [queue  |-> NotOfType(q, STEERING),
     result |-> ApplyMode(OfType(q, STEERING), mode)]

\* Mutant of get_followup_messages: the whole queue is emptied
get_followup_messages_ClearsQueue(q, mode) ==
    [queue  |-> <<>>,
     result |-> ApplyMode(OfType(q, FOLLOWUP), mode)]

\* Mutant of get_followup_messages: the queue is left as it is
get_followup_messages_KeepsQueue(q, mode) ==
    [queue  |-> q,
     result |-> ApplyMode(OfType(q, FOLLOWUP), mode)]

\* MessageQueue.get_followup_messages
get_followup_messages(q, mode) ==
    [queue  |-> NotOfType(q, FOLLOWUP),
     result |-> ApplyMode(OfType(q, FOLLOWUP), mode)]

\* MessageQueue.clear
clear(q) == [queue |-> <<>>, result |-> q]

\* No dequeuing call is in progress
DequeueInit ==
    /\ dq_pc = "idle"
    /\ dq_local = <<>>
    /\ dq_rest = <<>>

-----------------------------------------------------------------------------
(* Messages, tools and the registry *)

NONE == "none"

\* Text is modelled as a sequence of pieces; f"Error: {e}" is the piece
\* "Error: " followed by the pieces of str(e).
Text(s) == <<s>>

StartsWith(content, prefix) == Len(content) >= 1 /\ content[1] = prefix

\* pig_llm.Message as run() builds it: metadata holds tool_calls (assistant
\* entry of a batch) or tool_call_id and name (tool entry), else nothing.
Message(role, content) ==
    [role |-> role, content |-> content, tool_calls |-> <<>>,
     tool_call_id |-> NONE, name |-> NONE]

AssistantToolCalls(content, calls) ==
    [role |-> "assistant", content |-> content, tool_calls |-> calls,
     tool_call_id |-> NONE, name |-> NONE]

ToolMessage(r) ==
    [role |-> "tool", content |-> r.content, tool_calls |-> <<>>,
     tool_call_id |-> r.tool_call_id, name |-> r.name]

\* The tools registered with the agent: double(x: int) returns, boom(x: int)
\* raises. The provider may also name a tool that is not registered.
Registered == {"double", "boom"}
ToolNames == Registered \cup {"missing"}

\* The arguments strings a provider emits: an object that validates, an
\* object that does not (x is no int), and the empty string.
ARGS_VALID   == "{\"x\": 21}"
ARGS_INVALID == "{\"x\": \"abc\"}"
ARGS_EMPTY   == ""

\* json.loads: raises JSONDecodeError on the empty string
json_loads(s) ==
    IF s = ARGS_EMPTY THEN [raises |-> TRUE, value |-> NONE]
    ELSE [raises |-> FALSE, value |-> s]

\* Tool.execute: validation and the function's own exceptions both leave as
\* RuntimeError("Tool <name> failed: ...")
tool_execute(name, args) ==
    IF args # ARGS_VALID
    THEN [raises |-> TRUE, value |-> <<"Tool ", name, " failed: ", "validation error">>]
    ELSE IF name = "boom"
    THEN [raises |-> TRUE, value |-> <<"Tool ", name, " failed: ", "boom">>]
    ELSE [raises |-> FALSE, value |-> <<"42">>]

\* ToolRegistry.execute: KeyError for a name that is not registered
registry_execute(name, args) ==
    IF name \notin Registered
    THEN [raises |-> TRUE, value |-> <<"'Tool '", name, "' not found in registry'">>]
    ELSE tool_execute(name, args)

\* The entry run() adds to tool_results for a call
ToolResult(call, content) ==
    [tool_call_id |-> call.id, role |-> "tool", name |-> call.name,
     content |-> content]

ErrorResult(call, e) == ToolResult(call, <<"Error: ">> \o e)

\* The body of "for tool_call in response.tool_calls" for one call, given the
\* results collected so far: the exception that leaves run() (NONE if none)
\* and the new tool_results.
HandleToolCall(call, results, hook_start, hook_end) ==
    LET parsed == json_loads(call.arguments)
        out    == registry_execute(call.name, parsed.value)
    IN  IF parsed.raises
        THEN [raised |-> "JSONDecodeError", results |-> results]
        ELSE IF hook_start = "raises"
        THEN [raised |-> "HookError", results |-> results]
        ELSE IF out.raises
        THEN [raised |-> NONE,
              results |-> Append(results, ErrorResult(call, out.value))]
        ELSE IF hook_end = "raises"
        THEN \* on_tool_end runs inside the try, after the result was appended
             [raised |-> NONE,
              results |-> Append(Append(results, ToolResult(call, out.value)),
                                 ErrorResult(call, <<"on_tool_end failed">>))]
        ELSE [raised |-> NONE,
              results |-> Append(results, ToolResult(call, out.value))]

\* A tool call whose execution fails: registry.execute raises for it
ExecutionFails(call) ==
    /\ ~json_loads(call.arguments).raises
    /\ registry_execute(call.name, json_loads(call.arguments).value).raises

\* What a provider may put in one tool call
CallKinds ==
    {[name |-> "double",  arguments |-> ARGS_VALID],
     [name |-> "double",  arguments |-> ARGS_INVALID],
     [name |-> "boom",    arguments |-> ARGS_VALID],
     [name |-> "missing", arguments |-> ARGS_VALID],
     [name |-> "double",  arguments |-> ARGS_EMPTY]}

\* One call per way through the loop body: the tool returns, registry.execute
\* raises, json.loads raises
LoopKinds ==
    {[name |-> "double",  arguments |-> ARGS_VALID],
     [name |-> "missing", arguments |-> ARGS_VALID],
     [name |-> "double",  arguments |-> ARGS_EMPTY]}

BatchShapes(kinds) == UNION {[1..n -> kinds] : n \in 1..MaxToolCalls}

\* response.tool_calls of the c-th provider call of the turn
MkBatch(shape, c) ==
    [k \in 1..Len(shape) |->
        [id |-> <<c, k>>, name |-> shape[k].name, arguments |-> shape[k].arguments]]

\* The content of the tool-free response to the c-th provider call of the
\* turn: every response gets its own text
Reply(c) == <<"reply", c>>

MAX_ITERATIONS_TEXT == "Maximum iterations reached without completion."

-----------------------------------------------------------------------------
(* SessionTree and Session *)

\* Entry ids are uuid4 strings: the n-th one drawn is modelled as n. NoId is
\* None; StaleId is an id that no entry of the tree has (an id of another
\* session, or a mistyped one).
NoId == 0
StaleId == -1

\* "if len(path) <= 10" and "path[-5:]" in Session.compact
COMPACT_THRESHOLD == 10
KEEP_RECENT == 5

\* metadata = {} of an entry added without keyword arguments
NoMetadata == [keys |-> {}]

SessionEntry(id, parent_id, timestamp, role, content, metadata) ==
    [id |-> id, parent_id |-> parent_id, timestamp |-> timestamp,
     role |-> role, content |-> content, metadata |-> metadata]

Ids(es) == {es[i].id : i \in 1..Len(es)}

\* self.entries.get(id): the sequence of the entries with that id (at most one)
Get(es, id) == SelectSeq(es, LAMBDA e : e.id = id)

\* self.entries[entry.id] = entry: a new key goes last, an old key keeps its place
DictSet(es, entry) ==
    IF entry.id \in Ids(es)
    THEN [i \in 1..Len(es) |-> IF es[i].id = entry.id THEN entry ELSE es[i]]
    ELSE Append(es, entry)

\* An add_entry that stores the new entry under the id of the current entry
add_entry_OverwritesCurrent(t, role, content, parent_id, metadata, id, timestamp) ==
    LET key   == IF t.current_id = NoId THEN id ELSE t.current_id
        entry == SessionEntry(key, parent_id, timestamp, role, content, metadata)
    IN  [entries    |-> DictSet(t.entries, entry),
         current_id |-> key,
         root_id    |-> IF t.root_id = NoId THEN key ELSE t.root_id]

\* An add_entry that leaves a null parent_id null
add_entry_NoDefaultParent(t, role, content, parent_id, metadata, id, timestamp) ==
    LET entry == SessionEntry(id, parent_id, timestamp, role, content, metadata)
    IN  [entries    |-> DictSet(t.entries, entry),
         current_id |-> id,
         root_id    |-> IF t.root_id = NoId THEN id ELSE t.root_id]

\* SessionTree.add_entry on the tree t = [entries, current_id, root_id], with
\* the uuid and the timestamp the new SessionEntry draws
add_entry(t, role, content, parent_id, metadata, id, timestamp) ==
    LET parent == IF parent_id = NoId THEN t.current_id ELSE parent_id
        entry  == SessionEntry(id, parent, timestamp, role, content, metadata)
    IN  [entries    |-> DictSet(t.entries, entry),
         current_id |-> id,
         root_id    |-> IF t.root_id = NoId THEN id ELSE t.root_id]

\* SessionTree.get_path_to_entry: the walk along parent_id, which stops at an
\* id that entries.get does not find; n bounds the recursion by the number of
\* entries
\* A walk that appends each entry it meets instead of inserting it in front
get_path_to_entry_TipFirst(es, id) ==
    LET RECURSIVE Down(_, _)
        Down(i, n) ==
            IF n = 0 \/ i = NoId \/ Get(es, i) = <<>> THEN <<>>
            ELSE <<Get(es, i)[1]>> \o Down(Get(es, i)[1].parent_id, n - 1)
    IN  Down(id, Len(es))

RECURSIVE PathUp(_, _, _)
PathUp(es, id, n) ==
    IF n = 0 \/ id = NoId \/ Get(es, id) = <<>> THEN <<>>
    ELSE Append(PathUp(es, Get(es, id)[1].parent_id, n - 1), Get(es, id)[1])

get_path_to_entry(es, id) == PathUp(es, id, Len(es))

\* SessionTree.get_children
get_children(es, entry_id) == {e \in Range(es) : e.parent_id = entry_id}

\* SessionTree.get_current_path
get_current_path(t) ==
    IF t.current_id = NoId THEN <<>> ELSE get_path_to_entry(t.entries, t.current_id)

\* entry.model_dump_json(): one line of text, the JSON object of the fields
\* in the order of their declaration
model_dump_json(e) ==
    <<e.id, e.parent_id, e.timestamp, e.role, e.content, e.metadata>>

\* SessionEntry.model_validate_json(line)
model_validate_json(line) ==
    SessionEntry(line[1], line[2], line[3], line[4], line[5], line[6])

\* The empty line of a text; a text is the sequence of its lines, and the
\* empty text has this one line
EmptyLine == <<>>

\* SessionTree.to_jsonl: "\n".join of one line per entry, in the order of
\* the dict
to_jsonl(es) ==
    IF es = <<>> THEN <<EmptyLine>>
    ELSE [i \in 1..Len(es) |-> model_dump_json(es[i])]

\* max(tree.entries.values(), key=lambda e: e.timestamp): the first entry, in
\* dict order, that has the largest timestamp
LatestEntry(es) ==
    LET i == CHOOSE i \in 1..Len(es) :
                /\ \A j \in 1..Len(es) : es[j].timestamp <= es[i].timestamp
                /\ \A j \in 1..(i - 1) : es[j].timestamp < es[i].timestamp
    IN  es[i]

\* SessionTree.from_jsonl: the entries line by line; root_id is the last
\* entry read that has no parent; current_id the latest entry
RECURSIVE ReadLines(_, _)
ReadLines(lines, t) ==
    IF lines = <<>> THEN t
    ELSE IF Head(lines) = EmptyLine THEN ReadLines(Tail(lines), t)
    ELSE LET entry == model_validate_json(Head(lines))
         IN  ReadLines(Tail(lines),
                       [entries    |-> DictSet(t.entries, entry),
                        current_id |-> t.current_id,
                        root_id    |-> IF entry.parent_id = NoId THEN entry.id
                                       ELSE t.root_id])

from_jsonl(lines) ==
    LET t == ReadLines(lines, [entries |-> <<>>, current_id |-> NoId, root_id |-> NoId])
    IN  [entries    |-> t.entries,
         current_id |-> IF t.entries = <<>> THEN NoId ELSE LatestEntry(t.entries).id,
         root_id    |-> t.root_id]

Tree == [entries |-> entries, current_id |-> current_id, root_id |-> root_id]

EmptyTree == [entries |-> <<>>, current_id |-> NoId, root_id |-> NoId]

NoFile == [exists |-> FALSE, lines |-> <<>>]

\* The header line of a session file
Header == <<"header">>

\* A save that writes the tree's lines without the header line
save_NoHeader(es) == [exists |-> TRUE, lines |-> to_jsonl(es)]

\* Session.save: the header line and the tree's lines replace the file
save(es) == [exists |-> TRUE, lines |-> <<Header>> \o to_jsonl(es)]

\* The tree Session.load builds: readline() takes the header, from_jsonl
\* the rest
load(f) == from_jsonl(Tail(f.lines))

\* What a reader finds in place of a line that is only partly in the file
CutLine == <<"cut">>

\* Session.load of a file that may hold less than a save wrote: json.loads
\* of an empty or partial first line raises, and so does
\* model_validate_json of a partial entry line
load_any(f) ==
    IF f.lines = <<>> \/ Head(f.lines) # Header
    THEN [raised |-> "JSONDecodeError", entries |-> <<>>]
    ELSE IF \E i \in 2..Len(f.lines) : f.lines[i] = CutLine
    THEN [raised |-> "ValidationError", entries |-> <<>>]
    ELSE [raised |-> NONE, entries |-> load(f).entries]

\* Session.__init__ (auto_save is a constructor argument, True by default)
SessionInit ==
    /\ entries = <<>>
    /\ current_id = NoId
    /\ root_id = NoId
    /\ auto_save = TRUE
    /\ file = NoFile
    /\ uuids = 0
    /\ clock = 0
    /\ s_op = "init"
    /\ s_before = <<>>
    /\ s_returned = <<>>
    /\ s_raised = NONE
    /\ s_ops = 0

-----------------------------------------------------------------------------
(* MessengerBot and MultiPlatformSessionManager *)

\* The frames of handle_message the model follows, one per delivered message
Handlers == {"h1", "h2"}

\* self.platforms: the names of the adapters added to the bot
platforms == {"feishu", "whatsapp"}

UniversalMessage(platform, channel_id, thread_id, is_thread, text) ==
    [platform |-> platform, channel_id |-> channel_id, thread_id |-> thread_id,
     is_thread |-> is_thread, text |-> text]

NoMessage == UniversalMessage(NONE, NONE, NONE, FALSE, <<>>)

\* The messages the adapters deliver to handler h
Inbox(h) ==
    IF h = "h1"
    THEN {UniversalMessage("feishu", "c1", "t1", TRUE, <<"text", h>>)}
    ELSE {UniversalMessage("feishu", "c1", NONE, FALSE, <<"text", h>>),
          UniversalMessage("feishu", "c2", "t2", FALSE, <<"text", h>>),
          UniversalMessage("whatsapp", "c1", "t3", TRUE, <<"text", h>>)}

\* MultiPlatformSessionManager.get_session_key: f"{platform}:{channel_id}"
get_session_key(platform, channel_id) == <<platform, ":", channel_id>>

Keys == {get_session_key(p, c) : p \in platforms, c \in {"c1", "c2"}}

\* key.replace(":", "_")
ReplaceColon(key) == [i \in 1..Len(key) |-> IF key[i] = ":" THEN "_" ELSE key[i]]

\* session_file of get_session: sessions_dir / f"{key.replace(':', '_')}.jsonl"
session_file(key) == <<"sessions">> \o ReplaceColon(key) \o <<".jsonl">>

\* The name get_session gives a new Session: f"{platform}_{channel_id}"
SessionName(platform, channel_id) == <<platform, "_", channel_id>>

\* The path Session.save writes: workspace / ".sessions" / f"{name}.jsonl"
SavePath(name) == <<".sessions">> \o name \o <<".jsonl">>

Paths ==
    {session_file(k) : k \in Keys}
      \cup {SavePath(SessionName(p, c)) : p \in platforms, c \in {"c1", "c2"}}

\* MessengerBot.__init__ with enable_sessions, after add_platform for each
\* adapter; no message delivered yet
BotInit ==
    /\ sessions = [k \in Keys |-> NONE]
    /\ b_trees = [h \in Handlers |-> EmptyTree]
    /\ b_auto = [h \in Handlers |-> TRUE]
    /\ disk = [f \in Paths |-> NoFile]
    /\ b_msg = [h \in Handlers |-> NoMessage]
    /\ b_via = [h \in Handlers |-> NONE]
    /\ b_pc = [h \in Handlers |-> "idle"]
    /\ b_session = [h \in Handlers |-> NONE]
    /\ b_response = [h \in Handlers |-> <<>>]
    /\ b_failed = [h \in Handlers |-> FALSE]
    /\ b_outcome = [h \in Handlers |-> "running"]
    /\ b_sends = <<>>
    /\ b_llm_input = [h \in Handlers |-> <<>>]

-----------------------------------------------------------------------------
(* ExtensionAPI: event handlers *)

Events == {"tool_call_start", "tool_call_end"}

\* The functions an extension registers: two that return and one that raises
\* an Exception
Callables ==
    {[name |-> "f", raises |-> FALSE], [name |-> "g", raises |-> FALSE],
     [name |-> "boom", raises |-> TRUE]}

\* ExtensionAPI.__init__; a missing key of the dict reads as the empty list
\* (extensions.py:120-121, 137)
ExtensionInit ==
    /\ event_handlers = [e \in Events |-> <<>>]
    /\ em_last = [event |-> NONE, calls |-> <<>>, raised |-> NONE]

\* "for handler in handlers" (extensions.py:138-142): the handlers called, in
\* order, and the exception that leaves the loop; with_try is whether the
\* call is inside try / except Exception
RECURSIVE RunHandlers(_, _)
RunHandlers(handlers, with_try) ==
    IF handlers = <<>> THEN [calls |-> <<>>, raised |-> NONE]
    ELSE LET h    == Head(handlers)
             rest == RunHandlers(Tail(handlers), with_try)
         IN  IF h.raises /\ ~with_try
             THEN [calls |-> <<h>>, raised |-> "Exception"]
             ELSE [calls |-> <<h>> \o rest.calls, raised |-> rest.raised]

\* Mutant of emit: the handler is called outside any try
emit_NoTry(handlers) == RunHandlers(handlers, FALSE)

\* ExtensionAPI.emit, given self._event_handlers.get(event, [])
emit(handlers) == RunHandlers(handlers, TRUE)

-----------------------------------------------------------------------------
(* ToolRegistry *)

\* The tools a client hands to register: of each name, MaxVersions tools that
\* differ in the function they wrap
RegTools ==
    {[name |-> n, func |-> v] : n \in {"double", "boom", "echo"}, v \in 1..MaxVersions}

\* ToolRegistry.__init__
RegistryInit ==
    /\ reg_tools = <<>>
    /\ reg_last = [op |-> "init", name |-> NONE, held |-> FALSE]

\* Mutant of register: the tool is added next to the ones of its name
register_KeepsEarlier(tools, tool) == Append(tools, tool)

\* ToolRegistry.register: "self._tools[tool.name] = tool"; a dict keeps the
\* place of a key it already holds
register(tools, tool) ==
    IF \E i \in 1..Len(tools) : tools[i].name = tool.name
    THEN [i \in 1..Len(tools) |-> IF tools[i].name = tool.name THEN tool ELSE tools[i]]
    ELSE Append(tools, tool)

\* ToolRegistry.unregister: "self._tools.pop(name, None)"
unregister(tools, name) == SelectSeq(tools, LAMBDA t : t.name # name)

\* ToolRegistry.get, which execute dispatches through: the tools found under
\* the name (self._tools.get(name) is the one found, None if there is none)
registry_get(tools, name) == SelectSeq(tools, LAMBDA t : t.name = name)

-----------------------------------------------------------------------------
(* FileReferenceParser *)

\* A path is the sequence of its components and a component the sequence of
\* its characters; str(path) is the characters with a "/" before each
\* component.
DOTDOT == <<".", ".">>

\* self.workspace: /h/ws
Workspace == << <<"h">>, <<"w", "s">> >>

\* The directories and the files of the machine: the workspace with a file
\* and a subdirectory, a sibling directory /h/wsx, and a file beside them
Dirs ==
    {<<>>, << <<"h">> >>, Workspace, Workspace \o << <<"s", "r", "c">> >>,
     << <<"h">>, <<"w", "s", "x">> >>}
Files ==
    {Workspace \o << <<"a">> >>, Workspace \o << <<"s", "r", "c">>, <<"d">> >>,
     << <<"h">>, <<"w", "s", "x">>, <<"a">> >>, << <<"h">>, <<"b">> >>}

\* The components a reference is made of
RefParts == {DOTDOT, <<"w", "s", "x">>, <<"s", "r", "c">>, <<"a">>, <<"d">>, <<"b">>}

References == UNION {[1..n -> RefParts] : n \in 1..MaxRefLen}

\* Path.resolve(): ".." removes the component before it (there are no
\* symbolic links on this machine)
RECURSIVE Resolve(_, _)
Resolve(path, done) ==
    IF path = <<>> THEN done
    ELSE IF Head(path) = DOTDOT
    THEN Resolve(Tail(path), IF done = <<>> THEN <<>> ELSE SubSeq(done, 1, Len(done) - 1))
    ELSE Resolve(Tail(path), Append(done, Head(path)))

\* str(path)
RECURSIVE PathStr(_)
PathStr(path) ==
    IF path = <<>> THEN <<>>
    ELSE <<"/">> \o Head(path) \o PathStr(Tail(path))

\* s.startswith(t), of two strings (or of two sequences of components)
startswith(s, t) == Len(t) <= Len(s) /\ SubSeq(s, 1, Len(t)) = t

\* Path.exists(): the operating system walks the components, each but the
\* last through a directory
PathExists(path) ==
    /\ Resolve(path, <<>>) \in Files \cup Dirs
    /\ \A k \in 1..(Len(path) - 1) : Resolve(SubSeq(path, 1, k), <<>>) \in Dirs

\* self.workspace.rglob(name): the files of that name below the workspace
rglob(name) ==
    {f \in Files : startswith(f, Workspace) /\ f # Workspace /\ f[Len(f)] = name}

\* "if not str(resolved).startswith(str(self.workspace.resolve()))"
\* (file_reference.py:47)
OutsideCheck(resolved) ==
    ~startswith(PathStr(resolved), PathStr(Resolve(Workspace, <<>>)))

\* FileReferenceParser.resolve_file(reference), where first is matches[0]
\* when the search is made and finds something: the tuple returned
\* (exists, path, content or error) and the files read
resolve_file(reference, first) ==
    LET file_path == Workspace \o reference
        resolved  == Resolve(file_path, <<>>)
        matches   == rglob(reference[Len(reference)])
        to_read   == IF PathExists(file_path) THEN file_path ELSE first
    IN  IF OutsideCheck(resolved)
        THEN [exists |-> FALSE, path |-> file_path,
              text |-> "File outside workspace", read |-> {}]
        ELSE IF ~PathExists(file_path) /\ matches = {}
        THEN [exists |-> FALSE, path |-> file_path,
              text |-> "File not found", read |-> {}]
        ELSE IF Resolve(to_read, <<>>) \in Dirs
        THEN [exists |-> FALSE, path |-> to_read,
              text |-> "Error reading file", read |-> {}]
        ELSE [exists |-> TRUE, path |-> to_read,
              text |-> "content", read |-> {Resolve(to_read, <<>>)}]

FileRefInit ==
    fr_call = [reference |-> <<>>, exists |-> FALSE, path |-> <<>>,
               text |-> NONE, read |-> {}]

\* No save is in progress
PersistInit ==
    /\ w_pending = <<>>
    /\ w_before = NoFile

-----------------------------------------------------------------------------
(* ContextManager *)

\* Where a context file may be: in the home directory (the global
\* configuration, home not being on the chain of the workspace) or in the
\* directory at a level of the chain, level 0 being the workspace and the
\* levels above it its ancestors below the root; in the directory itself
\* or in a configuration directory of it.
HOME == -1
CtxFile(level, place) == [level |-> level, place |-> place]

\* The places find_context_files looks at, in its order: the two global
\* files, then per directory the file, .agents/ and .pi/
GlobalPlaces == << CtxFile(HOME, ".agents"), CtxFile(HOME, ".pi/agent") >>
DirPlaces(level) ==
    << CtxFile(level, "."), CtxFile(level, ".agents"), CtxFile(level, ".pi") >>

CtxPlaces ==
    Range(GlobalPlaces) \cup UNION {Range(DirPlaces(l)) : l \in 0..MaxDepth}

\* Path.read_text: every file has its own content
read_text(f) == <<"SYSTEM.md of", f.level, f.place>>

DEFAULT_PROMPT == <<"default prompt">>

\* The files of a list of places that exist, in the order of the list
Existing(places, files) == SelectSeq(places, LAMBDA f : f \in files)

\* "while current != current.parent": the workspace, then each parent
RECURSIVE WalkUp(_, _, _)
WalkUp(level, found, files) ==
    IF level > MaxDepth THEN found
    ELSE WalkUp(level + 1, found \o Existing(DirPlaces(level), files), files)

\* ContextManager.find_context_files("SYSTEM.md")
find_context_files(files) == WalkUp(0, Existing(GlobalPlaces, files), files)

\* ContextManager.load_system_md: "return files[-1].read_text()"
load_system_md(files) ==
    LET found == find_context_files(files)
    IN  IF found = <<>> THEN NONE ELSE read_text(Last(found))

\* ContextManager.build_system_prompt(default_prompt), no AGENTS.md and no
\* APPEND_SYSTEM.md existing
build_system_prompt(files, default_prompt) ==
    IF load_system_md(files) # NONE THEN load_system_md(files)
    ELSE default_prompt

ContextInit ==
    /\ ctx_files = {}
    /\ ctx_call = [files |-> {}, prompt |-> NONE]

-----------------------------------------------------------------------------
(* RPCMode *)

\* The lines a client may write: a request the handler answers, a request
\* for which the handler raises, and a line that is not JSON. The request
\* on line i has id i.
LineKinds == {"request", "failing request", "not JSON"}

RequestLine(i, kind) == [id |-> i, kind |-> kind]

\* What read_request does with a line: it returns the request, or it sends
\* the error 'Invalid JSON: ...' and returns None (output_modes.py:113-116)
read_request(line) ==
    IF line.kind = "not JSON"
    THEN [is_none |-> TRUE, request |-> line,
          sent    |-> <<[id |-> NONE, result |-> NONE,
                         error |-> <<"Invalid JSON: ", line.id>>]>>]
    ELSE [is_none |-> FALSE, request |-> line, sent |-> <<>>]

\* handler(method, params) followed by send_response, or by send_error when
\* the handler raises (output_modes.py:177-181)
Respond(request) ==
    IF request.kind = "request"
    THEN [id |-> request.id, result |-> <<"result", request.id>>, error |-> NONE]
    ELSE [id |-> request.id, result |-> NONE, error |-> <<"error", request.id>>]

\* RPCMode.__init__ and the input the client will have written; run_server
\* is about to be called
RpcInit ==
    /\ rpc_stdin = <<>>
    /\ rpc_read = 0
    /\ rpc_stdout = <<>>
    /\ rpc_pc = "serving"

\* The state of the parts only the smaller specifications drive
ExtraInit ==
    /\ DequeueInit /\ ExtensionInit /\ RegistryInit /\ FileRefInit
    /\ PersistInit /\ ContextInit /\ RpcInit
    /\ managers = 1

-----------------------------------------------------------------------------
(* Agent.run *)

AgentInit ==
    /\ history = <<>>
    /\ max_iterations = MaxIterations
    /\ on_tool_start \in {"ok", "raises"}
    /\ on_tool_end \in {"ok", "raises"}
    /\ ~(on_tool_start = "raises" /\ on_tool_end = "raises")
    /\ check_queue = TRUE
    /\ pc = "idle"
    /\ iterations = 0
    /\ tool_calls = <<>>
    /\ next_call = 1
    /\ tool_results = <<>>
    /\ returned = NONE
    /\ raised = NONE
    /\ runs = 0
    /\ turn_calls = 0
    /\ run_calls = <<>>
    /\ llm_input = <<>>
    /\ answers = <<>>
    /\ replies = <<>>
    /\ batch_log = [tools |-> <<>>, steering |-> <<>>, had_steering |-> FALSE]
    /\ failed = {}
    /\ emitted = 0
    /\ enqueued = <<>>

\* One more provider call of the k-th run() invocation of the turn
CountCall(counts, k) ==
    [i \in 1..k |-> IF i > Len(counts) THEN 1
                    ELSE IF i = k THEN counts[i] + 1 ELSE counts[i]]

\* Mutant of LoopGuard: the bound is off by one
LoopGuard_OffByOne(i, max) == i <= max

\* "while iterations < self.max_iterations"
LoopGuard(i, max) == i < max

\* Mutant of EnterRun: the counter of the enclosing invocation is kept
EnterRun_KeepsCounter(h, message) ==
    /\ history' = Append(h, Message("user", message))
    /\ iterations' = iterations
    /\ pc' = "loop"
    /\ runs' = runs + 1
    /\ answers' = <<>>
    /\ failed' = {}

\* The entry of run(message): the user message is appended and the counter
\* starts at 0 (agent.py:86-88)
EnterRun(h, message) ==
    /\ history' = Append(h, Message("user", message))
    /\ iterations' = 0
    /\ pc' = "loop"
    /\ runs' = runs + 1
    /\ answers' = <<>>
    /\ failed' = {}

\* agent.run("A", check_queue = cq), called by the owner of the agent
Run(cq) ==
    /\ pc = "idle"
    /\ check_queue' = cq
    /\ EnterRun(history, Text("A"))
    /\ UNCHANGED <<qvars, qobs, max_iterations, on_tool_start, on_tool_end,
                   tool_calls, next_call, tool_results, returned, raised,
                   turn_calls, run_calls, llm_input, replies, batch_log,
                   emitted, enqueued>>
    /\ UNCHANGED <<svars, sobs, bvars, xvars>>

\* The provider call of one iteration (agent.py:89-100)
CallProvider ==
    /\ pc = "loop"
    /\ LoopGuard(iterations, max_iterations)
    /\ llm_input' = history
    /\ turn_calls' = turn_calls + 1

\* The provider answers with tool calls (agent.py:103-107)
ProviderToolCalls(shape) ==
    /\ CallProvider
    /\ emitted + Len(shape) <= MaxToolCalls
    /\ emitted' = emitted + Len(shape)
    /\ iterations' = iterations + 1
    /\ run_calls' = CountCall(run_calls, runs)
    /\ tool_calls' = MkBatch(shape, turn_calls + 1)
    /\ next_call' = 1
    /\ tool_results' = <<>>
    /\ pc' = "batch"
    /\ answers' = Append(answers, "tool_calls")
    /\ UNCHANGED <<qvars, qobs, history, max_iterations, on_tool_start,
                   on_tool_end, check_queue, returned, raised, runs, replies,
                   batch_log, failed, enqueued>>
    /\ UNCHANGED <<svars, sobs, bvars, xvars>>

\* The provider call raises: the exception leaves run()
ProviderRaises ==
    /\ CallProvider
    /\ iterations' = iterations + 1
    /\ run_calls' = CountCall(run_calls, runs)
    /\ raised' = "ProviderError"
    /\ pc' = "raised"
    /\ answers' = Append(answers, "raises")
    /\ UNCHANGED <<qvars, qobs, history, max_iterations, on_tool_start,
                   on_tool_end, check_queue, tool_calls, next_call,
                   tool_results, returned, runs, replies, batch_log, failed,
                   emitted, enqueued>>
    /\ UNCHANGED <<svars, sobs, bvars, xvars>>

\* One pass of "for tool_call in response.tool_calls" (agent.py:108-141)
ExecuteTool ==
    /\ pc = "batch"
    /\ next_call <= Len(tool_calls)
    /\ LET call == tool_calls[next_call]
           r    == HandleToolCall(call, tool_results, on_tool_start, on_tool_end)
       IN  /\ tool_results' = r.results
           /\ raised' = r.raised
           /\ pc' = IF r.raised = NONE THEN "batch" ELSE "raised"
           /\ next_call' = next_call + 1
           /\ failed' = IF ExecutionFails(call) /\ r.raised = NONE
                        THEN failed \cup {call} ELSE failed
    /\ UNCHANGED <<qvars, qobs, history, max_iterations, on_tool_start,
                   on_tool_end, check_queue, iterations, tool_calls, returned,
                   runs, turn_calls, run_calls, llm_input, answers, replies,
                   batch_log, emitted, enqueued>>
    /\ UNCHANGED <<svars, sobs, bvars, xvars>>

\* "if check_queue and self.message_queue.has_steering()"
SteeringChecked(cq, q) == cq /\ has_steering(q)

\* Mutant of HistoryAfterBatch: the steering entries go in before the tool
\* entries of the batch
HistoryAfterBatch_SteeringFirst(h, calls, results, steering) ==
    Append(h, AssistantToolCalls(Text(""), calls))
      \o [i \in 1..Len(steering) |-> Message("user", steering[i].content)]
      \o [i \in 1..Len(results) |-> ToolMessage(results[i])]

\* Mutant of HistoryAfterBatch: the last tool entry of the batch is left out
HistoryAfterBatch_PartialBatch(h, calls, results, steering) ==
    Append(h, AssistantToolCalls(Text(""), calls))
      \o [i \in 1..(Len(results) - 1) |-> ToolMessage(results[i])]
      \o [i \in 1..Len(steering) |-> Message("user", steering[i].content)]

\* self.history after the batch (agent.py:143-168): the assistant entry, the
\* tool entries, then the drained steering messages as user entries
HistoryAfterBatch(h, calls, results, steering) ==
    Append(h, AssistantToolCalls(Text(""), calls))
      \o [i \in 1..Len(results) |-> ToolMessage(results[i])]
      \o [i \in 1..Len(steering) |-> Message("user", steering[i].content)]

\* The end of a batch (agent.py:143-171)
FinishBatch ==
    /\ pc = "batch"
    /\ next_call > Len(tool_calls)
    /\ LET check == SteeringChecked(check_queue, queue)
           got   == get_steering_messages(queue, steering_mode)
           steer == IF check THEN got.result ELSE <<>>
       IN  /\ history' = HistoryAfterBatch(history, tool_calls, tool_results, steer)
           /\ queue' = IF check THEN got.queue ELSE queue
           /\ batch_log' = [tools |-> [i \in 1..Len(tool_results) |->
                                          ToolMessage(tool_results[i])],
                            steering |-> steer,
                            had_steering |-> has_steering(queue)]
    /\ pc' = "loop"
    /\ UNCHANGED <<steering_mode, followup_mode, qobs, max_iterations,
                   on_tool_start, on_tool_end, check_queue, iterations,
                   tool_calls, next_call, tool_results, returned, raised, runs,
                   turn_calls, run_calls, llm_input, answers, replies, failed,
                   emitted, enqueued>>
    /\ UNCHANGED <<svars, sobs, bvars, xvars>>

\* Mutant of FollowupChecked: the flag is tested the wrong way round
FollowupChecked_FlagInverted(cq, q) == ~cq /\ has_followup(q)

\* "if check_queue and self.message_queue.has_followup()"
FollowupChecked(cq, q) == cq /\ has_followup(q)

\* The provider answers without tool calls (agent.py:172-185): the assistant
\* entry is appended; a queued follow-up is drained and run() calls itself
\* with the first one, else the response is returned.
ProviderFinal ==
    /\ CallProvider
    /\ run_calls' = CountCall(run_calls, runs)
    /\ replies' = Append(replies, Reply(turn_calls + 1))
    /\ LET h   == Append(history, Message("assistant", Reply(turn_calls + 1)))
           got == get_followup_messages(queue, followup_mode)
       IN  IF FollowupChecked(check_queue, queue)
           THEN /\ queue' = got.queue
                /\ EnterRun(h, got.result[1].content)
                /\ UNCHANGED <<returned>>
           ELSE /\ history' = h
                /\ returned' = Reply(turn_calls + 1)
                /\ pc' = "done"
                /\ iterations' = iterations + 1
                /\ answers' = Append(answers, "final")
                /\ UNCHANGED <<queue, runs, failed>>
    /\ UNCHANGED <<steering_mode, followup_mode, qobs, max_iterations,
                   on_tool_start, on_tool_end, check_queue, tool_calls,
                   next_call, tool_results, raised, batch_log, emitted,
                   enqueued>>
    /\ UNCHANGED <<svars, sobs, bvars, xvars>>

\* The loop ends without a tool-free response (agent.py:187-193)
MaxIterationsReached ==
    /\ pc = "loop"
    /\ ~LoopGuard(iterations, max_iterations)
    /\ history' = Append(history, Message("assistant", Text(MAX_ITERATIONS_TEXT)))
    /\ returned' = Text(MAX_ITERATIONS_TEXT)
    /\ pc' = "done"
    /\ UNCHANGED <<qvars, qobs, max_iterations, on_tool_start, on_tool_end,
                   check_queue, iterations, tool_calls, next_call, tool_results,
                   raised, aobs>>
    /\ UNCHANGED <<svars, sobs, bvars, xvars>>

\* The text of the next message the input thread submits
NextText == <<Texts[Len(enqueued) + 1]>>

\* The points of a turn at which an enqueue is told apart by what run() reads
\* next: before run(), before a provider call (the same as during it) and at
\* the end of a batch (the same as during it: the tool calls do not read the
\* queue).
Running ==
    \/ pc \in {"idle", "loop"}
    \/ pc = "batch" /\ next_call > Len(tool_calls)

\* The input thread enqueues a steering message
InputSteering ==
    /\ Running
    /\ Len(enqueued) < MaxEnqueue
    /\ add_steering(NextText)
    /\ enqueued' = Append(enqueued, QueuedMessage(NextText, STEERING))
    /\ UNCHANGED <<qobs, avars, runs, turn_calls, run_calls, llm_input, answers,
                   replies, batch_log, failed, emitted>>
    /\ UNCHANGED <<svars, sobs, bvars, xvars>>

\* The input thread enqueues a follow-up
InputFollowup ==
    /\ Running
    /\ Len(enqueued) < MaxEnqueue
    /\ add_followup(NextText)
    /\ enqueued' = Append(enqueued, QueuedMessage(NextText, FOLLOWUP))
    /\ UNCHANGED <<qobs, avars, runs, turn_calls, run_calls, llm_input, answers,
                   replies, batch_log, failed, emitted>>
    /\ UNCHANGED <<svars, sobs, bvars, xvars>>

QueueObsInit ==
    /\ q_op = "init"
    /\ q_before = <<>>
    /\ q_returned = <<>>

vars == <<qvars, qobs, avars, aobs, svars, sobs, bvars, xvars>>

InitAgent ==
    QueueInit /\ QueueObsInit /\ AgentInit /\ SessionInit /\ BotInit /\ ExtraInit

NextAgent ==
    \/ \E cq \in BOOLEAN : Run(cq)
    \/ \E shape \in BatchShapes(LoopKinds) : ProviderToolCalls(shape)
    \/ ProviderFinal
    \/ ProviderRaises
    \/ ExecuteTool
    \/ FinishBatch
    \/ MaxIterationsReached
    \/ InputSteering
    \/ InputFollowup

SpecAgent == InitAgent /\ [][NextAgent]_vars

\* One turn in which every provider call and every tool call returns to
\* run() and nothing is enqueued once run() has started: the queue is filled
\* before the call, the provider does not raise, and every tool call of a
\* batch is dispatched (its arguments parse and on_tool_start returns).
InitTermination == InitAgent /\ on_tool_start = "ok"

\* The tool calls that are dispatched to registry.execute
DispatchedKinds == {k \in LoopKinds : ~json_loads(k.arguments).raises}

\* A step of the thread that is inside run()
StepOfRun ==
    \/ \E shape \in BatchShapes(DispatchedKinds) : ProviderToolCalls(shape)
    \/ ProviderFinal
    \/ ExecuteTool
    \/ FinishBatch
    \/ MaxIterationsReached

NextTermination ==
    \/ pc = "idle" /\ InputSteering
    \/ pc = "idle" /\ InputFollowup
    \/ \E cq \in BOOLEAN : Run(cq)
    \/ StepOfRun

\* The calls return, so the thread inside run() goes on
SpecTermination ==
    InitTermination /\ [][NextTermination]_vars /\ WF_vars(StepOfRun)

\* One turn with every kind of tool call and nobody enqueuing: the queue
\* stays as constructed
InitTools ==
    /\ queue = <<>>
    /\ steering_mode = "one-at-a-time"
    /\ followup_mode = "one-at-a-time"
    /\ QueueObsInit
    /\ AgentInit
    /\ SessionInit
    /\ BotInit
    /\ ExtraInit

NextTools ==
    \/ \E cq \in BOOLEAN : Run(cq)
    \/ \E shape \in BatchShapes(CallKinds) : ProviderToolCalls(shape)
    \/ ProviderFinal
    \/ ProviderRaises
    \/ ExecuteTool
    \/ FinishBatch
    \/ MaxIterationsReached

SpecTools == InitTools /\ [][NextTools]_vars

-----------------------------------------------------------------------------
(* The queue driven through its methods *)

QAddSteering ==
    /\ Len(enqueued) < MaxQueue
    /\ q_before' = queue
    /\ add_steering(NextText)
    /\ q_op' = "add_steering"
    /\ q_returned' = <<>>
    /\ enqueued' = Append(enqueued, QueuedMessage(NextText, STEERING))
    /\ UNCHANGED <<avars, runs, turn_calls, run_calls, llm_input, answers,
                   replies, batch_log, failed, emitted>>
    /\ UNCHANGED <<svars, sobs, bvars, xvars>>

QAddFollowup ==
    /\ Len(enqueued) < MaxQueue
    /\ q_before' = queue
    /\ add_followup(NextText)
    /\ q_op' = "add_followup"
    /\ q_returned' = <<>>
    /\ enqueued' = Append(enqueued, QueuedMessage(NextText, FOLLOWUP))
    /\ UNCHANGED <<avars, runs, turn_calls, run_calls, llm_input, answers,
                   replies, batch_log, failed, emitted>>
    /\ UNCHANGED <<svars, sobs, bvars, xvars>>

QGetSteering ==
    /\ q_before' = queue
    /\ queue' = get_steering_messages(queue, steering_mode).queue
    /\ q_returned' = get_steering_messages(queue, steering_mode).result
    /\ q_op' = "get_steering_messages"
    /\ UNCHANGED <<steering_mode, followup_mode, avars, aobs>>
    /\ UNCHANGED <<svars, sobs, bvars, xvars>>

QGetFollowup ==
    /\ q_before' = queue
    /\ queue' = get_followup_messages(queue, followup_mode).queue
    /\ q_returned' = get_followup_messages(queue, followup_mode).result
    /\ q_op' = "get_followup_messages"
    /\ UNCHANGED <<steering_mode, followup_mode, avars, aobs>>
    /\ UNCHANGED <<svars, sobs, bvars, xvars>>

QClear ==
    /\ q_before' = queue
    /\ queue' = clear(queue).queue
    /\ q_returned' = clear(queue).result
    /\ q_op' = "clear"
    /\ UNCHANGED <<steering_mode, followup_mode, avars, aobs>>
    /\ UNCHANGED <<svars, sobs, bvars, xvars>>

InitQueue ==
    QueueInit /\ QueueObsInit /\ AgentInit /\ SessionInit /\ BotInit /\ ExtraInit

NextQueue ==
    \/ QAddSteering
    \/ QAddFollowup
    \/ QGetSteering
    \/ QGetFollowup
    \/ QClear

SpecQueue == InitQueue /\ [][NextQueue]_vars

-----------------------------------------------------------------------------
(* Session driven through its methods *)

\* The messages a client appends: user and assistant in turn, each with its
\* own text
NextRole == IF Len(entries) % 2 = 0 THEN "user" ELSE "assistant"
NextContent == <<"msg", uuids + 1>>

\* The ids a caller passes: the root, the current entry, the one before the
\* current entry, and a stale id
SomeId ==
    ({root_id, current_id} \cup {e.parent_id : e \in Range(Get(entries, current_id))}
        \cup {StaleId}) \ {NoId}

\* The ids a caller passes to move away from the current entry
OtherId == SomeId \ {current_id}

\* Session.add_message(role, content, parent_id): add_entry, then the save
\* of an auto-saving session
add_message(role, content, parent_id, metadata, now) ==
    LET t == add_entry(Tree, role, content, parent_id, metadata,
                       uuids + 1, now)
    IN  /\ entries' = t.entries
        /\ current_id' = t.current_id
        /\ root_id' = t.root_id
        /\ uuids' = uuids + 1
        /\ clock' = now
        /\ file' = IF auto_save THEN save(t.entries) ELSE file
        /\ s_returned' = <<Last(t.entries)>>
        /\ UNCHANGED auto_save

\* session.add_message(role, content)
AddMessage ==
    /\ Len(entries) < MaxEntries
    /\ add_message(NextRole, NextContent, NoId, NoMetadata, clock + 1)
    /\ s_op' = "add_message"
    /\ s_before' = entries
    /\ s_raised' = NONE
    /\ UNCHANGED <<s_ops, qvars, qobs, avars, aobs, bvars, xvars>>

\* session.add_message(role, content) in the instant of the entry before:
\* datetime.utcnow() returns the value it returned last
AddMessageSameInstant ==
    /\ Len(entries) < MaxEntries
    /\ s_ops < MaxOps
    /\ clock > 0
    /\ add_message(NextRole, NextContent, NoId, NoMetadata, clock)
    /\ s_op' = "add_message"
    /\ s_before' = entries
    /\ s_raised' = NONE
    /\ s_ops' = s_ops + 1
    /\ UNCHANGED <<qvars, qobs, avars, aobs, bvars, xvars>>

\* session.add_message(role, content, parent_id = p)
AddMessageUnder(p) ==
    /\ Len(entries) < MaxEntries
    /\ s_ops < MaxOps
    /\ add_message(NextRole, NextContent, p, NoMetadata, clock + 1)
    /\ s_op' = "add_message(parent_id)"
    /\ s_before' = entries
    /\ s_raised' = NONE
    /\ s_ops' = s_ops + 1
    /\ UNCHANGED <<qvars, qobs, avars, aobs, bvars, xvars>>

\* A switch_to that takes any id
switch_to_ok_AcceptsAny(es, entry_id) == entry_id = entry_id

\* SessionTree.switch_to: the id must be in the tree
switch_to_ok(es, entry_id) == entry_id \in Ids(es)

\* session.branch_to(entry_id)
BranchTo(entry_id) ==
    /\ s_ops < MaxOps
    /\ s_ops' = s_ops + 1
    /\ s_op' = "branch_to"
    /\ s_before' = entries
    /\ s_returned' = <<>>
    /\ IF switch_to_ok(entries, entry_id)
       THEN /\ current_id' = entry_id
            /\ file' = IF auto_save THEN save(entries) ELSE file
            /\ s_raised' = NONE
       ELSE /\ s_raised' = "ValueError"
            /\ UNCHANGED <<current_id, file>>
    /\ UNCHANGED <<entries, root_id, auto_save, uuids, clock>>
    /\ UNCHANGED <<qvars, qobs, avars, aobs, bvars, xvars>>

\* Session.get_current_conversation
get_current_conversation == get_current_path(Tree)

\* The roles of a list of entries
RolesOf(path) == {path[i].role : i \in 1..Len(path)}

\* summary_content of Session.compact
SummaryContent(old, instructions) ==
    <<"[Compacted ", Len(old), " messages]\n">>
      \o (IF instructions = NONE THEN <<>>
          ELSE <<"Instructions: ", instructions, "\n">>)
      \o <<"Topics covered: ", Cardinality(RolesOf(old)), " roles">>

\* compact passes metadata = {...} as a keyword, which add_message collects
\* in **metadata under the key "metadata"
CompactMetadata(old) ==
    [keys |-> {"metadata"}, compacted |-> TRUE, original_count |-> Len(old)]

\* Mutant of TooShort: a path of exactly the threshold is compacted
TooShort_OffByOne(path) == Len(path) < COMPACT_THRESHOLD

\* "if len(path) <= 10: return path"
TooShort(path) == Len(path) <= COMPACT_THRESHOLD

\* session.compact(instructions)
Compact(instructions) ==
    /\ s_ops < MaxOps
    /\ s_ops' = s_ops + 1
    /\ s_op' = "compact"
    /\ s_before' = entries
    /\ s_raised' = NONE
    /\ LET path   == get_current_path(Tree)
           recent == SubSeq(path, Len(path) - KEEP_RECENT + 1, Len(path))
           old    == SubSeq(path, 1, Len(path) - KEEP_RECENT)
           t      == add_entry(Tree, "system", SummaryContent(old, instructions),
                               NoId, CompactMetadata(old), uuids + 1, clock + 1)
       IN  IF TooShort(path)
           THEN /\ s_returned' = path
                /\ UNCHANGED svars
           ELSE /\ entries' = t.entries
                /\ current_id' = t.current_id
                /\ root_id' = t.root_id
                /\ uuids' = uuids + 1
                /\ clock' = clock + 1
                /\ file' = IF auto_save THEN save(t.entries) ELSE file
                /\ s_returned' = <<Last(t.entries)>> \o recent
                /\ UNCHANGED auto_save
    /\ UNCHANGED <<qvars, qobs, avars, aobs, bvars, xvars>>

\* A copy that puts the entries of the path themselves in the new tree
CopyPath_KeepsIds(path, t, id, timestamp) ==
    [entries    |-> path,
     current_id |-> IF path = <<>> THEN NoId ELSE Last(path).id,
     root_id    |-> IF path = <<>> THEN NoId ELSE Head(path).id]

\* The tree of the session fork() builds from a path: one add_message per
\* entry, each with a new uuid and timestamp
RECURSIVE CopyPath(_, _, _, _)
CopyPath(path, t, id, timestamp) ==
    IF path = <<>> THEN t
    ELSE CopyPath(Tail(path),
                  add_entry(t, Head(path).role, Head(path).content, NoId,
                            Head(path).metadata, id + 1, timestamp + 1),
                  id + 1, timestamp + 1)

\* session.fork(entry_id): a new session; this one is left as it is
Fork(entry_id) ==
    /\ s_ops < MaxOps
    /\ s_ops' = s_ops + 1
    /\ s_op' = "fork"
    /\ s_before' = entries
    /\ s_raised' = NONE
    /\ LET path == get_path_to_entry(entries, entry_id)
       IN  /\ s_returned' = <<CopyPath(path, EmptyTree, uuids, clock)>>
           /\ uuids' = uuids + Len(path)
           /\ clock' = clock + Len(path)
    /\ UNCHANGED <<entries, current_id, root_id, auto_save, file>>
    /\ UNCHANGED <<qvars, qobs, avars, aobs, bvars, xvars>>

\* session.save()
Save ==
    /\ s_ops < MaxOps
    /\ s_ops' = s_ops + 1
    /\ s_op' = "save"
    /\ s_before' = entries
    /\ s_raised' = NONE
    /\ s_returned' = <<>>
    /\ file' = save(entries)
    /\ UNCHANGED <<entries, current_id, root_id, auto_save, uuids, clock>>
    /\ UNCHANGED <<qvars, qobs, avars, aobs, bvars, xvars>>

\* session = Session.load(path): the session is now the loaded one
Load ==
    /\ s_ops < MaxOps
    /\ file.exists
    /\ s_ops' = s_ops + 1
    /\ s_op' = "load"
    /\ s_before' = entries
    /\ s_raised' = NONE
    /\ s_returned' = <<>>
    /\ LET t == load(file)
       IN  /\ entries' = t.entries
           /\ current_id' = t.current_id
           /\ root_id' = t.root_id
    /\ auto_save' = FALSE
    /\ UNCHANGED <<file, uuids, clock>>
    /\ UNCHANGED <<qvars, qobs, avars, aobs, bvars, xvars>>

InitSession ==
    /\ queue = <<>>
    /\ steering_mode = "one-at-a-time"
    /\ followup_mode = "one-at-a-time"
    /\ QueueObsInit
    /\ AgentInit
    /\ on_tool_start = "ok"
    /\ on_tool_end = "ok"
    /\ SessionInit
    /\ BotInit
    /\ ExtraInit

NextSession ==
    \/ AddMessage
    \/ AddMessageSameInstant
    \/ \E p \in OtherId : AddMessageUnder(p)
    \/ \E e \in OtherId : BranchTo(e)
    \/ \E i \in {NONE, "Summarize"} : Compact(i)
    \/ \E e \in SomeId : Fork(e)
    \/ Save
    \/ Load

SpecSession == InitSession /\ [][NextSession]_vars

-----------------------------------------------------------------------------
(* MessengerBot.handle_message *)

\* The adapter hands a message to the handler: as a task of the event loop
\* of its platform or, in the Feishu adapter called outside a running loop,
\* with asyncio.run in the thread that called the adapter
Deliver(h, m, via) ==
    /\ b_pc[h] = "idle"
    /\ via = "thread" => m.platform = "feishu"
    /\ b_msg' = [b_msg EXCEPT ![h] = m]
    /\ b_via' = [b_via EXCEPT ![h] = via]
    /\ b_pc' = [b_pc EXCEPT ![h] = "resolve"]
    /\ UNCHANGED <<sessions, b_trees, b_auto, disk, b_session, b_response,
                   b_failed, b_outcome, b_sends, b_llm_input>>
    /\ UNCHANGED <<qvars, qobs, avars, aobs, svars, sobs, xvars>>

\* The part of handle_message that has no await: from the first statement to
\* the send
InSyncPart(h) ==
    b_pc[h] \in {"create", "insert", "append_user", "run_user", "run_chat",
                 "run_final", "append_assistant"}

\* Whether handler h may take a step: a task runs only while no other task
\* of the same event loop is between two awaits; the adapters of different
\* platforms run in different threads (MessengerBot.start), and so does a
\* handler run with asyncio.run
MayStep(h) ==
    \/ b_via[h] = "thread"
    \/ \A g \in Handlers \ {h} :
          ~(/\ b_via[g] = "task"
            /\ b_msg[g].platform = b_msg[h].platform
            /\ InSyncPart(g))

KeyOf(h) == get_session_key(b_msg[h].platform, b_msg[h].channel_id)

\* get_session up to its choice: the cached session, the session loaded
\* from session_file, or a new one; ok = FALSE is session_file.exists()
\* raising OSError
GetSessionLookup(h, ok) ==
    /\ b_pc[h] = "resolve"
    /\ MayStep(h)
    /\ IF sessions[KeyOf(h)] # NONE
       THEN /\ ok
            /\ b_session' = [b_session EXCEPT ![h] = sessions[KeyOf(h)]]
            /\ b_pc' = [b_pc EXCEPT ![h] = "append_user"]
            /\ UNCHANGED <<sessions, b_trees, b_auto, b_failed>>
       ELSE IF ~ok
       THEN /\ b_failed' = [b_failed EXCEPT ![h] = TRUE]
            /\ b_pc' = [b_pc EXCEPT ![h] = "notify"]
            /\ UNCHANGED <<sessions, b_trees, b_auto, b_session>>
       ELSE IF disk[session_file(KeyOf(h))].exists
       THEN /\ b_trees' = [b_trees EXCEPT ![h] = load(disk[session_file(KeyOf(h))])]
            /\ b_auto' = [b_auto EXCEPT ![h] = FALSE]
            /\ sessions' = [sessions EXCEPT ![KeyOf(h)] = h]
            /\ b_session' = [b_session EXCEPT ![h] = h]
            /\ b_pc' = [b_pc EXCEPT ![h] = "append_user"]
            /\ UNCHANGED b_failed
       ELSE /\ b_pc' = [b_pc EXCEPT ![h] = "create"]
            /\ UNCHANGED <<sessions, b_trees, b_auto, b_session, b_failed>>
    /\ UNCHANGED <<disk, b_msg, b_via, b_response, b_outcome, b_sends, b_llm_input>>
    /\ UNCHANGED <<qvars, qobs, avars, aobs, svars, sobs, xvars>>

\* get_session: session = Session(name, workspace, auto_save=True); the
\* object made in frame h is called h
GetSessionCreate(h) ==
    /\ b_pc[h] = "create"
    /\ MayStep(h)
    /\ b_trees' = [b_trees EXCEPT ![h] = EmptyTree]
    /\ b_auto' = [b_auto EXCEPT ![h] = TRUE]
    /\ b_pc' = [b_pc EXCEPT ![h] = "insert"]
    /\ UNCHANGED <<sessions, disk, b_msg, b_via, b_session, b_response,
                   b_failed, b_outcome, b_sends, b_llm_input>>
    /\ UNCHANGED <<qvars, qobs, avars, aobs, svars, sobs, xvars>>

\* get_session: self.sessions[key] = session; return session
GetSessionInsert(h) ==
    /\ b_pc[h] = "insert"
    /\ MayStep(h)
    /\ sessions' = [sessions EXCEPT ![KeyOf(h)] = h]
    /\ b_session' = [b_session EXCEPT ![h] = h]
    /\ b_pc' = [b_pc EXCEPT ![h] = "append_user"]
    /\ UNCHANGED <<b_trees, b_auto, disk, b_msg, b_via, b_response,
                   b_failed, b_outcome, b_sends, b_llm_input>>
    /\ UNCHANGED <<qvars, qobs, avars, aobs, svars, sobs, xvars>>

\* The name of the Session object made in frame sid
NameOf(sid) == SessionName(b_msg[sid].platform, b_msg[sid].channel_id)

\* session.add_message(role, content) in frame h, then to the step next;
\* ok = FALSE is the save of an auto-saving session raising OSError, after
\* the entry is in the tree
SessionAppend(h, role, content, ok, next) ==
    LET sid == b_session[h]
        t   == add_entry(b_trees[sid], role, content, NoId, NoMetadata,
                         uuids + 1, clock + 1)
    IN  /\ ok \/ b_auto[sid]
        /\ b_trees' = [b_trees EXCEPT ![sid] = t]
        /\ uuids' = uuids + 1
        /\ clock' = clock + 1
        /\ disk' = IF b_auto[sid] /\ ok
                   THEN [disk EXCEPT ![SavePath(NameOf(sid))] = save(t.entries)]
                   ELSE disk
        /\ b_failed' = [b_failed EXCEPT ![h] = ~ok]
        /\ b_pc' = [b_pc EXCEPT ![h] = IF ok THEN next ELSE "notify"]

\* session.add_message("user", message.text)
AppendUser(h, ok) ==
    /\ b_pc[h] = "append_user"
    /\ MayStep(h)
    /\ SessionAppend(h, "user", b_msg[h].text, ok, "run_user")
    /\ UNCHANGED <<sessions, b_auto, b_msg, b_via, b_session, b_response,
                   b_outcome, b_sends, b_llm_input>>
    /\ UNCHANGED <<qvars, qobs, avars, aobs, entries, current_id, root_id,
                   auto_save, file, sobs,
                   xvars>>

\* agent.run: self.history.append(Message(role="user", content=message))
RunAppendUser(h) ==
    /\ b_pc[h] = "run_user"
    /\ MayStep(h)
    /\ history' = Append(history, Message("user", b_msg[h].text))
    /\ b_pc' = [b_pc EXCEPT ![h] = "run_chat"]
    /\ UNCHANGED <<sessions, b_trees, b_auto, disk, b_msg, b_via, b_session,
                   b_response, b_failed, b_outcome, b_sends, b_llm_input>>
    /\ UNCHANGED <<qvars, qobs, max_iterations, on_tool_start, on_tool_end,
                   check_queue, pc, iterations, tool_calls, next_call,
                   tool_results, returned, raised, aobs, svars, sobs,
                   xvars>>

\* agent.run: the first pass of the loop calls self.llm.chat(messages =
\* self.history); the provider answers without tool calls, or raises
RunChat(h, ok) ==
    /\ b_pc[h] = "run_chat"
    /\ MayStep(h)
    /\ LoopGuard(0, max_iterations)
    /\ b_llm_input' = [b_llm_input EXCEPT ![h] = history]
    /\ IF ok
       THEN /\ b_response' = [b_response EXCEPT ![h] = <<"reply", h>>]
            /\ b_pc' = [b_pc EXCEPT ![h] = "run_final"]
            /\ UNCHANGED b_failed
       ELSE /\ b_failed' = [b_failed EXCEPT ![h] = TRUE]
            /\ b_pc' = [b_pc EXCEPT ![h] = "notify"]
            /\ UNCHANGED b_response
    /\ UNCHANGED <<sessions, b_trees, b_auto, disk, b_msg, b_via, b_session,
                   b_outcome, b_sends>>
    /\ UNCHANGED <<qvars, qobs, avars, aobs, svars, sobs, xvars>>

\* agent.run: the tool-free response is appended and, the queue holding no
\* follow-up, returned
RunFinal(h) ==
    /\ b_pc[h] = "run_final"
    /\ MayStep(h)
    /\ ~has_followup(queue)
    /\ history' = Append(history, Message("assistant", b_response[h]))
    /\ b_pc' = [b_pc EXCEPT ![h] = "append_assistant"]
    /\ UNCHANGED <<sessions, b_trees, b_auto, disk, b_msg, b_via, b_session,
                   b_response, b_failed, b_outcome, b_sends, b_llm_input>>
    /\ UNCHANGED <<qvars, qobs, max_iterations, on_tool_start, on_tool_end,
                   check_queue, pc, iterations, tool_calls, next_call,
                   tool_results, returned, raised, aobs, svars, sobs,
                   xvars>>

\* session.add_message("assistant", response.content)
AppendAssistant(h, ok) ==
    /\ b_pc[h] = "append_assistant"
    /\ MayStep(h)
    /\ SessionAppend(h, "assistant", b_response[h], ok, "send")
    /\ UNCHANGED <<sessions, b_auto, b_msg, b_via, b_session, b_response,
                   b_outcome, b_sends, b_llm_input>>
    /\ UNCHANGED <<qvars, qobs, avars, aobs, entries, current_id, root_id,
                   auto_save, file, sobs,
                   xvars>>

\* Mutant of SendCall: the thread id of the message is passed on whether or
\* not the message is in a thread
SendCall_AlwaysThread(h, kind, text, ok) ==
    [handler |-> h, platform |-> b_msg[h].platform,
     channel_id |-> b_msg[h].channel_id, kind |-> kind, text |-> text,
     raised |-> ~ok, thread_id |-> b_msg[h].thread_id]

\* One call of platform.send_message, as the adapter sees it
SendCall(h, kind, text, ok) ==
    [handler |-> h, platform |-> b_msg[h].platform,
     channel_id |-> b_msg[h].channel_id, kind |-> kind, text |-> text,
     raised |-> ~ok,
     thread_id |-> IF b_msg[h].is_thread THEN b_msg[h].thread_id ELSE NONE]

\* await platform.send_message(channel_id, response.content, thread_id);
\* ok = FALSE is the adapter raising
Send(h, ok) ==
    /\ b_pc[h] = "send"
    /\ MayStep(h)
    /\ IF b_msg[h].platform \in platforms
       THEN /\ b_sends' = Append(b_sends, SendCall(h, "reply", b_response[h], ok))
            /\ b_failed' = [b_failed EXCEPT ![h] = ~ok]
            /\ b_pc' = [b_pc EXCEPT ![h] = IF ok THEN "done" ELSE "notify"]
            /\ b_outcome' = [b_outcome EXCEPT ![h] = IF ok THEN "returned" ELSE @]
       ELSE /\ ok
            /\ b_pc' = [b_pc EXCEPT ![h] = "done"]
            /\ b_outcome' = [b_outcome EXCEPT ![h] = "returned"]
            /\ UNCHANGED <<b_sends, b_failed>>
    /\ UNCHANGED <<sessions, b_trees, b_auto, disk, b_msg, b_via, b_session,
                   b_response, b_llm_input>>
    /\ UNCHANGED <<qvars, qobs, avars, aobs, svars, sobs, xvars>>

\* An except clause that lets the failure of the error notice out
NoticeOutcome_Rethrows(ok) == IF ok THEN "returned" ELSE "raised"

\* "except Exception: pass" around the error notice
NoticeOutcome(ok) == "returned"

\* The except clause: one send_message of the error text, whose own failure
\* is dropped
Notify(h, ok) ==
    /\ b_pc[h] = "notify"
    /\ MayStep(h)
    /\ IF b_msg[h].platform \in platforms
       THEN /\ b_sends' = Append(b_sends, SendCall(h, "error", <<"Error: ", h>>, ok))
            /\ b_outcome' = [b_outcome EXCEPT ![h] = NoticeOutcome(ok)]
       ELSE /\ ok
            /\ b_outcome' = [b_outcome EXCEPT ![h] = "returned"]
            /\ UNCHANGED b_sends
    /\ b_pc' = [b_pc EXCEPT ![h] = "done"]
    /\ UNCHANGED <<sessions, b_trees, b_auto, disk, b_msg, b_via, b_session,
                   b_response, b_failed, b_llm_input>>
    /\ UNCHANGED <<qvars, qobs, avars, aobs, svars, sobs, xvars>>

InitBot ==
    /\ queue = <<>>
    /\ steering_mode = "one-at-a-time"
    /\ followup_mode = "one-at-a-time"
    /\ QueueObsInit
    /\ AgentInit
    /\ on_tool_start = "ok"
    /\ on_tool_end = "ok"
    /\ SessionInit
    /\ BotInit
    /\ ExtraInit

\* A message is delivered to handler h, or handle_message goes on in h
HandlerStep(h) ==
    \/ \E m \in Inbox(h), via \in {"task", "thread"} : Deliver(h, m, via)
    \/ \E ok \in BOOLEAN : GetSessionLookup(h, ok)
    \/ GetSessionCreate(h)
    \/ GetSessionInsert(h)
    \/ \E ok \in BOOLEAN : AppendUser(h, ok)
    \/ RunAppendUser(h)
    \/ \E ok \in BOOLEAN : RunChat(h, ok)
    \/ RunFinal(h)
    \/ \E ok \in BOOLEAN : AppendAssistant(h, ok)
    \/ \E ok \in BOOLEAN : Send(h, ok)
    \/ \E ok \in BOOLEAN : Notify(h, ok)

NextBot == \E h \in Handlers : HandlerStep(h)

SpecBot == InitBot /\ [][NextBot]_vars

-----------------------------------------------------------------------------
(* The dispatcher restarted over the same workspace *)

\* The process ends once its handlers are over and a new one starts:
\* MessengerBot.__init__ builds a new Agent and a new
\* MultiPlatformSessionManager(workspace) (session_manager.py:17-20); the
\* files stay
Restart ==
    /\ managers < MaxManagers
    /\ \A h \in Handlers : b_pc[h] \in {"idle", "done"}
    /\ \E h \in Handlers : b_pc[h] = "done"
    /\ managers' = managers + 1
    /\ sessions' = [k \in Keys |-> NONE]
    /\ b_trees' = [h \in Handlers |-> EmptyTree]
    /\ b_auto' = [h \in Handlers |-> TRUE]
    /\ b_msg' = [h \in Handlers |-> NoMessage]
    /\ b_via' = [h \in Handlers |-> NONE]
    /\ b_pc' = [h \in Handlers |-> "idle"]
    /\ b_session' = [h \in Handlers |-> NONE]
    /\ b_response' = [h \in Handlers |-> <<>>]
    /\ b_failed' = [h \in Handlers |-> FALSE]
    /\ b_outcome' = [h \in Handlers |-> "running"]
    /\ b_sends' = <<>>
    /\ b_llm_input' = [h \in Handlers |-> <<>>]
    /\ history' = <<>>
    /\ UNCHANGED <<disk, cvars, pvars, dvars, evars, rvars, fr_call, wvars>>
    /\ UNCHANGED <<qvars, qobs, max_iterations, on_tool_start, on_tool_end,
                   check_queue, pc, iterations, tool_calls, next_call,
                   tool_results, returned, raised, aobs, svars, sobs>>

\* One message at a time is handled, by handler h1 or by handler h2
NextRestart ==
    \/ \E h \in Handlers :
          /\ \A g \in Handlers \ {h} : b_pc[g] \in {"idle", "done"}
          /\ HandlerStep(h)
    \/ Restart

SpecRestart == InitBot /\ [][NextRestart]_vars

-----------------------------------------------------------------------------
(* The MessageQueue shared by two threads *)

\* The methods have no lock: the interpreter may switch threads between the
\* statements of a method, and between evaluating the right-hand side of
\* "self.queue = [...]" and storing it. list.append, list.copy and list.clear
\* are single steps.

\* The type a dequeuing method selects; clear() selects every message
Selects(op, m) ==
    \/ op = "get_steering_messages" /\ m.type = STEERING
    \/ op = "get_followup_messages" /\ m.type = FOLLOWUP
    \/ op = "clear"

\* The input thread calls add_steering or add_followup
ThreadAdd(type) ==
    /\ Len(enqueued) < MaxQueue
    /\ IF type = STEERING THEN add_steering(NextText) ELSE add_followup(NextText)
    /\ enqueued' = Append(enqueued, QueuedMessage(NextText, type))
    /\ UNCHANGED <<qobs, avars, runs, turn_calls, run_calls, llm_input, answers,
                   replies, batch_log, failed, emitted>>
    /\ UNCHANGED <<svars, sobs, bvars, xvars>>

\* The agent's thread enters get_steering_messages, get_followup_messages or
\* clear
CallDequeue(op) ==
    /\ dq_pc = "idle"
    /\ dq_pc' = "called"
    /\ q_op' = op
    /\ q_before' = queue
    /\ UNCHANGED <<qvars, q_returned, dq_local, dq_rest>>
    /\ UNCHANGED <<avars, aobs, svars, sobs, bvars, evars, rvars, fr_call, wvars, yvars>>

\* "steering = [m for m in self.queue if m.type == STEERING]"
\* (message_queue.py:59, :75) or "messages = self.queue.copy()" (:99)
ReadSelected ==
    /\ dq_pc = "called"
    /\ dq_local' = SelectSeq(queue, LAMBDA m : Selects(q_op, m))
    /\ dq_pc' = "selected"
    /\ UNCHANGED <<qvars, qobs, dq_rest>>
    /\ UNCHANGED <<avars, aobs, svars, sobs, bvars, evars, rvars, fr_call, wvars, yvars>>

\* The right-hand side of "self.queue = [m for m in self.queue if ...]"
\* (message_queue.py:62, :78) is evaluated
EvalRemaining ==
    /\ dq_pc = "selected"
    /\ q_op # "clear"
    /\ dq_rest' = SelectSeq(queue, LAMBDA m : ~Selects(q_op, m))
    /\ dq_pc' = "evaluated"
    /\ UNCHANGED <<qvars, qobs, dq_local>>
    /\ UNCHANGED <<avars, aobs, svars, sobs, bvars, evars, rvars, fr_call, wvars, yvars>>

\* The evaluated list is stored in self.queue
StoreQueue ==
    /\ dq_pc = "evaluated"
    /\ queue' = dq_rest
    /\ dq_pc' = "stored"
    /\ UNCHANGED <<steering_mode, followup_mode, qobs, dq_local, dq_rest>>
    /\ UNCHANGED <<avars, aobs, svars, sobs, bvars, evars, rvars, fr_call, wvars, yvars>>

\* "self.queue.clear()" (message_queue.py:100)
ClearInPlace ==
    /\ dq_pc = "selected"
    /\ q_op = "clear"
    /\ queue' = <<>>
    /\ dq_pc' = "stored"
    /\ UNCHANGED <<steering_mode, followup_mode, qobs, dq_local, dq_rest>>
    /\ UNCHANGED <<avars, aobs, svars, sobs, bvars, evars, rvars, fr_call, wvars, yvars>>

\* The return statement (message_queue.py:65-67, :81-83, :101): the mode of
\* the method is applied; clear() returns all it copied
ReturnDequeue ==
    /\ dq_pc = "stored"
    /\ q_returned' = ApplyMode(dq_local,
                        IF q_op = "get_steering_messages" THEN steering_mode
                        ELSE IF q_op = "get_followup_messages" THEN followup_mode
                        ELSE "all")
    /\ dq_pc' = "returned"
    /\ UNCHANGED <<qvars, q_op, q_before, dq_local, dq_rest>>
    /\ UNCHANGED <<avars, aobs, svars, sobs, bvars, evars, rvars, fr_call, wvars, yvars>>

InitThreads ==
    /\ QueueInit
    /\ QueueObsInit
    /\ AgentInit
    /\ on_tool_start = "ok"
    /\ on_tool_end = "ok"
    /\ SessionInit
    /\ BotInit
    /\ ExtraInit

NextThreads ==
    \/ \E type \in {STEERING, FOLLOWUP} : ThreadAdd(type)
    \/ \E op \in {"get_steering_messages", "get_followup_messages", "clear"} :
          CallDequeue(op)
    \/ ReadSelected
    \/ EvalRemaining
    \/ StoreQueue
    \/ ClearInPlace
    \/ ReturnDequeue

SpecThreads == InitThreads /\ [][NextThreads]_vars

-----------------------------------------------------------------------------
(* The smaller specifications start with every object as constructed *)

InitSmall ==
    /\ queue = <<>>
    /\ steering_mode = "one-at-a-time"
    /\ followup_mode = "one-at-a-time"
    /\ QueueObsInit
    /\ AgentInit
    /\ on_tool_start = "ok"
    /\ on_tool_end = "ok"
    /\ SessionInit
    /\ BotInit
    /\ ExtraInit

-----------------------------------------------------------------------------
(* ExtensionAPI driven through on and emit *)

\* api.on(event, handler) (extensions.py:98-128)
On(event, handler) ==
    /\ Len(event_handlers["tool_call_start"]) + Len(event_handlers["tool_call_end"])
           < MaxHandlers
    /\ event_handlers' =
           [event_handlers EXCEPT ![event] = Append(@, handler)]
    /\ UNCHANGED <<em_last, dvars, rvars, fr_call, wvars, yvars>>
    /\ UNCHANGED <<qvars, qobs, avars, aobs, svars, sobs, bvars>>

\* api.emit(event, data) (extensions.py:130-142)
Emit(event) ==
    /\ LET r == emit(event_handlers[event])
       IN  em_last' = [event |-> event, calls |-> r.calls, raised |-> r.raised]
    /\ UNCHANGED <<event_handlers, dvars, rvars, fr_call, wvars, yvars>>
    /\ UNCHANGED <<qvars, qobs, avars, aobs, svars, sobs, bvars>>

NextExtensions ==
    \/ \E e \in Events, h \in Callables : On(e, h)
    \/ \E e \in Events : Emit(e)

SpecExtensions == InitSmall /\ [][NextExtensions]_vars

-----------------------------------------------------------------------------
(* ToolRegistry driven through register and unregister *)

\* registry.register(tool)
Register(tool) ==
    /\ reg_tools' = register(reg_tools, tool)
    /\ reg_last' = [op |-> "register", name |-> tool.name,
                    held |-> registry_get(reg_tools, tool.name) # <<>>]
    /\ UNCHANGED <<dvars, evars, fr_call, wvars, yvars>>
    /\ UNCHANGED <<qvars, qobs, avars, aobs, svars, sobs, bvars>>

\* registry.unregister(name), of a registered name or of another one
Unregister(name) ==
    /\ reg_tools' = unregister(reg_tools, name)
    /\ reg_last' = [op |-> "unregister", name |-> name,
                    held |-> registry_get(reg_tools, name) # <<>>]
    /\ UNCHANGED <<dvars, evars, fr_call, wvars, yvars>>
    /\ UNCHANGED <<qvars, qobs, avars, aobs, svars, sobs, bvars>>

NextRegistry ==
    \/ \E t \in RegTools : Register(t)
    \/ \E n \in {"double", "boom", "echo", "missing"} : Unregister(n)

SpecRegistry == InitSmall /\ [][NextRegistry]_vars

-----------------------------------------------------------------------------
(* FileReferenceParser.resolve_file applied to a reference *)

\* parser.resolve_file(reference); the directory search returns its matches
\* in the order of the file system, so matches[0] is any of them
ResolveFile(reference) ==
    /\ \E first \in IF rglob(reference[Len(reference)]) = {} THEN {<<>>}
                    ELSE rglob(reference[Len(reference)]) :
          LET r == resolve_file(reference, first)
          IN  fr_call' = [reference |-> reference, exists |-> r.exists,
                          path |-> r.path, text |-> r.text, read |-> r.read]
    /\ UNCHANGED <<dvars, evars, rvars, wvars, yvars>>
    /\ UNCHANGED <<qvars, qobs, avars, aobs, svars, sobs, bvars>>

NextFileRef == \E reference \in References : ResolveFile(reference)

SpecFileRef == InitSmall /\ [][NextFileRef]_vars

-----------------------------------------------------------------------------
(* ContextManager.build_system_prompt over the SYSTEM.md files that exist *)

\* Somebody writes a SYSTEM.md
WriteContextFile(f) ==
    /\ f \notin ctx_files
    /\ Cardinality(ctx_files) < MaxCtxFiles
    /\ ctx_files' = ctx_files \cup {f}
    /\ UNCHANGED <<ctx_call, managers, pvars, dvars, evars, rvars, fr_call, wvars>>
    /\ UNCHANGED <<qvars, qobs, avars, aobs, svars, sobs, bvars>>

\* Somebody removes a SYSTEM.md
RemoveContextFile(f) ==
    /\ f \in ctx_files
    /\ ctx_files' = ctx_files \ {f}
    /\ UNCHANGED <<ctx_call, managers, pvars, dvars, evars, rvars, fr_call, wvars>>
    /\ UNCHANGED <<qvars, qobs, avars, aobs, svars, sobs, bvars>>

\* context.build_system_prompt(DEFAULT_PROMPT)
BuildSystemPrompt ==
    /\ ctx_call' = [files  |-> ctx_files,
                    prompt |-> build_system_prompt(ctx_files, DEFAULT_PROMPT)]
    /\ UNCHANGED <<ctx_files, managers, pvars, dvars, evars, rvars, fr_call, wvars>>
    /\ UNCHANGED <<qvars, qobs, avars, aobs, svars, sobs, bvars>>

NextContext ==
    \/ \E f \in CtxPlaces : WriteContextFile(f)
    \/ \E f \in CtxPlaces : RemoveContextFile(f)
    \/ BuildSystemPrompt

SpecContext == InitSmall /\ [][NextContext]_vars

-----------------------------------------------------------------------------
(* RPCMode.run_server over the lines of its input *)

\* The client writes a line
ClientWrites(kind) ==
    /\ Len(rpc_stdin) < MaxLines
    /\ rpc_stdin' = Append(rpc_stdin, RequestLine(Len(rpc_stdin) + 1, kind))
    /\ UNCHANGED <<rpc_read, rpc_stdout, rpc_pc>>
    /\ UNCHANGED <<cvars, managers, dvars, evars, rvars, fr_call, wvars>>
    /\ UNCHANGED <<qvars, qobs, avars, aobs, svars, sobs, bvars>>

\* One pass of "while True" in run_server for a line that readline returns
\* (output_modes.py:167-181)
ServeLine ==
    /\ rpc_pc = "serving"
    /\ rpc_read < Len(rpc_stdin)
    /\ rpc_read' = rpc_read + 1
    /\ LET got == read_request(rpc_stdin[rpc_read + 1])
       IN  IF got.is_none
           THEN /\ rpc_stdout' = rpc_stdout \o got.sent
                /\ rpc_pc' = "stopped"
           ELSE /\ rpc_stdout' = Append(rpc_stdout, Respond(got.request))
                /\ rpc_pc' = "serving"
    /\ UNCHANGED rpc_stdin
    /\ UNCHANGED <<cvars, managers, dvars, evars, rvars, fr_call, wvars>>
    /\ UNCHANGED <<qvars, qobs, avars, aobs, svars, sobs, bvars>>

\* The client closes the input and readline returns '': read_request
\* returns None and the loop ends (output_modes.py:110-111, 170-171)
EndOfInput ==
    /\ rpc_pc = "serving"
    /\ rpc_read = Len(rpc_stdin)
    /\ rpc_pc' = "stopped"
    /\ UNCHANGED <<rpc_stdin, rpc_read, rpc_stdout>>
    /\ UNCHANGED <<cvars, managers, dvars, evars, rvars, fr_call, wvars>>
    /\ UNCHANGED <<qvars, qobs, avars, aobs, svars, sobs, bvars>>

NextRpc ==
    \/ \E kind \in LineKinds : rpc_pc = "serving" /\ ClientWrites(kind)
    \/ ServeLine
    \/ EndOfInput

SpecRpc == InitSmall /\ [][NextRpc]_vars

-----------------------------------------------------------------------------
(* One turn of CodingAgent.run_interactive *)

\* "if self.session:" (pig_coding_agent/agent.py:271-273), reached when
\* self.agent.run(user_input) has returned: the input and the content of the
\* response are added to the session
AddToSession ==
    /\ pc = "done"
    /\ LET t1 == add_entry(Tree, "user", Text("A"), NoId, NoMetadata,
                           uuids + 1, clock + 1)
           t2 == add_entry(t1, "assistant", returned, NoId, NoMetadata,
                           uuids + 2, clock + 2)
       IN  /\ entries' = t2.entries
           /\ current_id' = t2.current_id
           /\ root_id' = t2.root_id
           /\ file' = IF auto_save THEN save(t2.entries) ELSE file
           /\ s_before' = t1.entries
           /\ s_returned' = <<Last(t2.entries)>>
    /\ uuids' = uuids + 2
    /\ clock' = clock + 2
    /\ s_op' = "add_message"
    /\ s_raised' = NONE
    /\ pc' = "recorded"
    /\ UNCHANGED <<auto_save, s_ops, qvars, qobs, history, max_iterations,
                   on_tool_start, on_tool_end, check_queue, iterations,
                   tool_calls, next_call, tool_results, returned, raised,
                   aobs, bvars, xvars>>

\* The turn: self.agent.run(user_input) with the default check_queue, then
\* the two session entries
NextCoding ==
    \/ Run(TRUE)
    \/ \E shape \in BatchShapes(LoopKinds) : ProviderToolCalls(shape)
    \/ ProviderFinal
    \/ ProviderRaises
    \/ ExecuteTool
    \/ FinishBatch
    \/ MaxIterationsReached
    \/ InputSteering
    \/ InputFollowup
    \/ AddToSession

SpecCoding == InitAgent /\ [][NextCoding]_vars

-----------------------------------------------------------------------------
(* Session.save while the file is read *)

\* save() writes through open(path, "w"): the file is emptied when it is
\* opened, and what f.write was given reaches the file when the buffer
\* fills and when the file is closed, so a reader finds any prefix of the
\* content, cut at any character.

\* session.add_message(role, content) of an auto-saving session, up to the
\* open() of its save (session.py:218-222, 333)
AppendAndOpen ==
    /\ w_pending = <<>>
    /\ Len(entries) < MaxSaved
    /\ LET t == add_entry(Tree, NextRole, NextContent, NoId, NoMetadata,
                          uuids + 1, clock + 1)
       IN  /\ entries' = t.entries
           /\ current_id' = t.current_id
           /\ root_id' = t.root_id
           /\ s_returned' = <<Last(t.entries)>>
           /\ w_pending' = IF auto_save THEN <<Header>> \o to_jsonl(t.entries)
                           ELSE <<>>
           /\ file' = IF auto_save THEN [exists |-> TRUE, lines |-> <<>>] ELSE file
    /\ w_before' = file
    /\ uuids' = uuids + 1
    /\ clock' = clock + 1
    /\ s_op' = "add_message"
    /\ s_before' = entries
    /\ s_raised' = NONE
    /\ UNCHANGED <<auto_save, s_ops, dvars, evars, rvars, fr_call, yvars>>
    /\ UNCHANGED <<qvars, qobs, avars, aobs, bvars>>

\* More of the content reaches the file (session.py:333-335): the line that
\* was cut is completed, k lines follow, and the next one is cut or not
Flush(k, cut) ==
    /\ w_pending # <<>>
    /\ k + (IF cut THEN 1 ELSE 0) <= Len(w_pending)
    /\ LET whole == IF file.lines # <<>> /\ Last(file.lines) = CutLine
                    THEN SubSeq(file.lines, 1, Len(file.lines) - 1)
                    ELSE file.lines
           lines == whole \o SubSeq(w_pending, 1, k)
                          \o (IF cut THEN <<CutLine>> ELSE <<>>)
       IN  /\ lines # file.lines
           /\ file' = [exists |-> TRUE, lines |-> lines]
    /\ w_pending' = SubSeq(w_pending, k + 1, Len(w_pending))
    /\ UNCHANGED <<entries, current_id, root_id, auto_save, uuids, clock, sobs,
                   w_before, dvars, evars, rvars, fr_call, yvars>>
    /\ UNCHANGED <<qvars, qobs, avars, aobs, bvars>>

\* Session.load(path) called by another thread or process (session.py:348-363)
LoadByOther ==
    /\ file.exists
    /\ s_op' = "load"
    /\ s_before' = entries
    /\ s_returned' = load_any(file).entries
    /\ s_raised' = load_any(file).raised
    /\ UNCHANGED <<svars, s_ops, xvars>>
    /\ UNCHANGED <<qvars, qobs, avars, aobs, bvars>>

NextPersist ==
    \/ AppendAndOpen
    \/ \E k \in 0..(MaxSaved + 1), cut \in BOOLEAN : Flush(k, cut)
    \/ LoadByOther

SpecPersist == InitSmall /\ [][NextPersist]_vars

-----------------------------------------------------------------------------
(* Properties of the agent loop *)

\* The tool entry run() is to append for a failed call c
IsErrorEntryFor(m, c) ==
    /\ m.role = "tool"
    /\ m.tool_call_id = c.id
    /\ m.name = c.name
    /\ StartsWith(m.content, "Error: ")

\* C1 (tool failure isolation): every tool call of a batch whose execution
\* failed (the tool raised, its arguments failed validation, its name is not
\* registered) has an entry in tool_results that starts with "Error: " and
\* carries its id and name while the batch is running, and once the batch is
\* over the history holds that entry as a tool message: the loop went on to
\* the remaining calls and to the next provider call.
C1_ToolFailureIsolation ==
    \A c \in failed :
        /\ pc = "batch" =>
              \E i \in 1..Len(tool_results) :
                  IsErrorEntryFor(ToolMessage(tool_results[i]), c)
        /\ pc # "batch" =>
              \E i \in 1..Len(history) : IsErrorEntryFor(history[i], c)

\* C2 as claimed (loop bound per turn): the provider calls of a turn, chained
\* follow-ups included, number at most max_iterations.
C2_LoopBoundPerTurn == turn_calls <= max_iterations

\* C2 as amended: every run() invocation of a turn makes at most
\* max_iterations provider calls of its own, so a turn of k chained
\* invocations makes at most k * max_iterations.
C2_LoopBoundPerRun ==
    /\ \A k \in 1..Len(run_calls) : run_calls[k] <= max_iterations
    /\ turn_calls <= runs * max_iterations

\* C2 witness: a turn of two invocations that made more than max_iterations
\* provider calls in all, the second one having used its whole budget
C2_Witness ==
    /\ runs = 2
    /\ turn_calls > max_iterations
    /\ Len(run_calls) = 2
    /\ run_calls[2] = max_iterations

\* The provider calls the innermost run() invocation has made
OwnCalls == IF Len(run_calls) < runs THEN 0 ELSE run_calls[runs]

\* C30 (fresh iteration budget): every entry into run(), the recursive one
\* for a follow-up included, sets the iteration counter to zero whatever the
\* enclosing invocation counted; the counter of the running invocation
\* counts that invocation's provider calls only, a provider call is made
\* only below max_iterations, and no invocation makes more than
\* max_iterations calls of its own.
C30_FreshBudget ==
    /\ [][runs' = runs + 1 => iterations' = 0]_vars
    /\ [][turn_calls' = turn_calls + 1 =>
              /\ OwnCalls < max_iterations
              /\ OwnCalls' = OwnCalls + 1 \/ (runs' = runs + 1 /\ OwnCalls' = 0)]_vars
    /\ [](runs >= 1 => /\ iterations = OwnCalls
                       /\ iterations <= max_iterations
                       /\ \A k \in 1..Len(run_calls) :
                              run_calls[k] <= max_iterations)

\* C30 witness: the enclosing invocation used max_iterations >= 2 provider
\* calls before it chained a follow-up, and the follow-up's invocation made
\* max_iterations calls of its own
C30_Witness ==
    /\ runs = 2
    /\ max_iterations >= 2
    /\ Len(run_calls) = 2
    /\ run_calls[1] = max_iterations
    /\ run_calls[2] = max_iterations
    /\ pc = "done"

\* run() has ended, by a return or by an exception
Ended == pc \in {"done", "raised"}

\* C3 (iteration ceiling): when the provider has answered every call of a
\* run() with tool calls and the run has ended, the run made exactly
\* max_iterations provider calls, the last history entry is the assistant
\* message "Maximum iterations reached without completion." and that is what
\* run() returned.
C3_IterationCeiling ==
    (/\ Ended
     /\ \A i \in 1..Len(answers) : answers[i] = "tool_calls")
    => /\ pc = "done"
       /\ run_calls[runs] = max_iterations
       /\ Last(history) = Message("assistant", Text(MAX_ITERATIONS_TEXT))
       /\ returned = Text(MAX_ITERATIONS_TEXT)

UserEntries(msgs) == [i \in 1..Len(msgs) |-> Message("user", msgs[i].content)]

\* A batch of the running invocation has finished and its provider call is
\* the latest one
AfterBatch == pc = "loop" /\ answers # <<>> /\ Last(answers) = "tool_calls"

\* C4 (steering insertion point): when check_queue is true and steering
\* messages were queued as a batch finished, the history then ends with the
\* batch's tool entries followed by the drained steering messages as user
\* entries (at least one), and the provider call that follows is given a
\* history that ends that way.
C4_SteeringInsertion ==
    /\ [](AfterBatch /\ check_queue /\ batch_log.had_steering
          => /\ batch_log.steering # <<>>
             /\ batch_log.tools # <<>>
             /\ EndsWith(history,
                         batch_log.tools \o UserEntries(batch_log.steering)))
    /\ [][AfterBatch /\ check_queue /\ batch_log.had_steering
          /\ turn_calls' = turn_calls + 1
          => EndsWith(llm_input',
                      batch_log.tools \o UserEntries(batch_log.steering))]_vars

\* C4 witness: a provider call was given a history ending with the tool
\* entries of the batch before it and the steering text drained after it
C4_Witness ==
    /\ turn_calls = 2
    /\ check_queue
    /\ batch_log.had_steering
    /\ batch_log.steering # <<>>
    /\ batch_log.tools # <<>>
    /\ EndsWith(llm_input, batch_log.tools \o UserEntries(batch_log.steering))

\* C5 (follow-up chaining): run() has returned; if one follow-up B was
\* queued, nothing else was, and the provider answered without tool calls,
\* then run was invoked twice and the history is user A, the reply to A,
\* user B, the reply to B, and the reply to B is what was returned. In
\* general the outer call returns the response of the last chained
\* invocation, which is the last history entry.
C5_FollowupChaining ==
    pc = "done" =>
        /\ Last(history) = Message("assistant", returned)
        /\ Last(answers) = "final" => returned = Last(replies)
        /\ (/\ check_queue
            /\ Len(enqueued) = 1
            /\ enqueued[1].type = FOLLOWUP
            /\ emitted = 0)
           => /\ runs = 2
              /\ Len(replies) = 2
              /\ history = <<Message("user", Text("A")),
                             Message("assistant", replies[1]),
                             Message("user", enqueued[1].content),
                             Message("assistant", replies[2])>>
              /\ returned = replies[2]

\* C5 witness: the chained turn has returned the reply to B
C5_Witness ==
    /\ pc = "done"
    /\ check_queue
    /\ Len(enqueued) = 1
    /\ enqueued[1].type = FOLLOWUP
    /\ emitted = 0
    /\ runs = 2
    /\ returned = Reply(2)

IsPrefix(s, t) == Len(s) <= Len(t) /\ SubSeq(t, 1, Len(s)) = s

\* In this step a tool-free provider response is appended to the history
AppendsCleanResponse ==
    /\ Len(history') > Len(history)
    /\ turn_calls' = turn_calls + 1
    /\ history'[Len(history) + 1] = Message("assistant", Reply(turn_calls'))

\* C6 (follow-ups are consumed only after a clean completion): a step takes
\* follow-ups out of the queue only if it appends a tool-free provider
\* response right before; a step that ends the run at max_iterations or by
\* an exception, and a step inside a tool batch, leaves the queued
\* follow-ups as they were.
C6_FollowupOnlyAfterClean ==
    /\ [][~IsPrefix(OfType(queue, FOLLOWUP), OfType(queue', FOLLOWUP))
          => AppendsCleanResponse]_vars
    /\ [][(\/ pc' = "raised"
           \/ pc' = "done" /\ returned' = Text(MAX_ITERATIONS_TEXT)
           \/ pc = "batch" /\ pc' # "loop" /\ enqueued' = enqueued)
          => OfType(queue', FOLLOWUP) = OfType(queue, FOLLOWUP)]_vars

\* C6 witness: one follow-up was consumed after a clean completion, and the
\* chained run then ended at max_iterations with another follow-up, queued
\* meanwhile, still in the queue
C6_Witness ==
    /\ runs = 2
    /\ pc = "done"
    /\ returned = Text(MAX_ITERATIONS_TEXT)
    /\ has_followup(queue)

\* In this step the entries of a finished batch are appended to the history:
\* the assistant entry with the tool calls, then the tool entries
AppendsBatchEntries ==
    /\ pc = "batch" /\ next_call > Len(tool_calls) /\ pc' = "loop"
    /\ Len(history') >= Len(history) + 1 + Len(tool_results)
    /\ SubSeq(history', 1, Len(history) + 1 + Len(tool_results)) =
          Append(history, AssistantToolCalls(Text(""), tool_calls))
            \o [i \in 1..Len(tool_results) |-> ToolMessage(tool_results[i])]

\* C31 (steering is inspected only between a batch and the next provider
\* call): a step takes steering messages out of the queue only if it is the
\* step that appends the entries of a finished batch; a step that appends a
\* tool-free provider response leaves the queued steering messages the
\* same, in the same order; while the tools of a batch are executing no
\* message leaves the queue.
C31_SteeringOnlyAfterBatch ==
    /\ [][~IsPrefix(OfType(queue, STEERING), OfType(queue', STEERING))
          => AppendsBatchEntries]_vars
    /\ [][AppendsCleanResponse
          => OfType(queue', STEERING) = OfType(queue, STEERING)]_vars
    /\ [][(pc = "batch" /\ next_call <= Len(tool_calls))
          => IsPrefix(queue, queue')]_vars

\* C31 witness: a batch ran, then a steering message and a follow-up were
\* queued; the tool-free response took the follow-up out and chained a run,
\* and the steering message is still in the queue
C31_Witness ==
    /\ runs = 2
    /\ emitted >= 1
    /\ batch_log.tools # <<>>
    /\ has_steering(queue)
    /\ ~has_followup(queue)

\* C36 (no queued message is discarded by the agent loop): at every point
\* of a turn each message that was enqueued is still in the queue or is in
\* the history as a user message, in either drain mode.
C36_NoMessageDiscarded ==
    \A i \in 1..Len(enqueued) :
        \/ enqueued[i] \in Range(queue)
        \/ Message("user", enqueued[i].content) \in Range(history)

-----------------------------------------------------------------------------
(* Properties of the message queue *)

\* C7 (queue drain separation): after get_steering_messages no steering
\* message is in the queue and the follow-ups are the same, in the same
\* order, as before the call; after get_followup_messages no follow-up is in
\* the queue and the steering messages are as before. In both modes.
C7_DrainSeparation ==
    /\ q_op = "get_steering_messages"
       => /\ ~has_steering(queue)
          /\ OfType(queue, FOLLOWUP) = OfType(q_before, FOLLOWUP)
    /\ q_op = "get_followup_messages"
       => /\ ~has_followup(queue)
          /\ OfType(queue, STEERING) = OfType(q_before, STEERING)

\* C7 witness: get_steering_messages in mode one-at-a-time on a queue that
\* held two steering messages and a follow-up
C7_Witness ==
    /\ q_op = "get_steering_messages"
    /\ steering_mode = "one-at-a-time"
    /\ Len(OfType(q_before, STEERING)) = 2
    /\ Len(OfType(q_before, FOLLOWUP)) = 1

\* What the claimed drain leaves of the messages of one type and returns
ClaimedDrain(before, after, result, type, mode) ==
    LET fifo == OfType(before, type)
    IN  IF mode = "one-at-a-time" /\ fifo # <<>>
        THEN /\ result = <<fifo[1]>>
             /\ OfType(after, type) = Tail(fifo)
        ELSE /\ result = fifo
             /\ OfType(after, type) = <<>>

\* C8 (drain modes): in mode one-at-a-time get_steering_messages removes and
\* returns exactly the oldest steering message and the later ones stay
\* queued in their order; in mode all it removes and returns all of them in
\* enqueue order. get_followup_messages likewise.
C8_DrainModes ==
    /\ q_op = "get_steering_messages"
       => ClaimedDrain(q_before, queue, q_returned, STEERING, steering_mode)
    /\ q_op = "get_followup_messages"
       => ClaimedDrain(q_before, queue, q_returned, FOLLOWUP, followup_mode)

-----------------------------------------------------------------------------
(* Properties of the session tree *)

\* The entry e is in es with the same id, parent_id, role, content and metadata
Kept(e, es) ==
    \E j \in 1..Len(es) :
        /\ es[j].id = e.id
        /\ es[j].parent_id = e.parent_id
        /\ es[j].role = e.role
        /\ es[j].content = e.content
        /\ es[j].metadata = e.metadata

\* C9: append-only tree. Over every call of add_message (with or without an
\* explicit parent), branch_to, compact, fork and save, each entry that is in
\* the tree before the call is in the tree after it, with the same id,
\* parent_id, role, content and metadata.
C9_AppendOnlyTree ==
    [][s_op' # "load" => \A i \in 1..Len(entries) : Kept(entries[i], entries')]_vars

\* A compaction of a path longer than the threshold has run, on a tree that
\* has a branch, and the tree is the former tree plus the summary entry.
C9_Witness ==
    /\ s_op = "compact"
    /\ Len(s_before) > COMPACT_THRESHOLD
    /\ Len(entries) = Len(s_before) + 1
    /\ \A i \in 1..Len(s_before) : entries[i] = s_before[i]
    /\ Last(entries).role = "system"
    /\ \E i \in 2..Len(s_before) : s_before[i].parent_id # s_before[i - 1].id

\* C10: parent existence. In every reachable state of the tree, an entry
\* whose parent_id is not null has as parent_id the id of an entry of the
\* same tree.
C10_ParentExists ==
    \A i \in 1..Len(entries) :
        entries[i].parent_id # NoId => entries[i].parent_id \in Ids(entries)

\* C11: current pointer. In every reachable state current_id is null exactly
\* when the tree has no entries, and otherwise it is the id of an entry of
\* the tree; a branch_to (switch_to) with an id that is not in the tree
\* raises and leaves current_id and the entries as they were.
C11_CurrentPointer ==
    /\ [](/\ current_id = NoId <=> entries = <<>>
          /\ current_id # NoId => current_id \in Ids(entries))
    /\ [][\A e \in SomeId :
            (BranchTo(e) /\ e \notin Ids(entries))
                => /\ s_raised' = "ValueError"
                   /\ UNCHANGED <<entries, current_id>>]_vars

\* A branch_to with an id that is not in a tree of several entries has raised.
C11_Witness ==
    /\ s_op = "branch_to"
    /\ s_raised = "ValueError"
    /\ Len(entries) >= 2
    /\ current_id = Last(entries).id

\* The positions of the entries that have no parent
Parentless(es) == {i \in 1..Len(es) : es[i].parent_id = NoId}

\* C12: single root. In every reachable state at most one entry has
\* parent_id = null, and when there is one it is the first entry inserted
\* and root_id is its id.
C12_SingleRoot ==
    /\ Cardinality(Parentless(entries)) <= 1
    /\ \A i \in Parentless(entries) : i = 1 /\ root_id = entries[i].id

\* A loaded tree with a branch and a root without parent.
C12_Witness ==
    /\ s_op = "load"
    /\ Len(entries) >= 3
    /\ Parentless(entries) = {1}
    /\ \E i, j \in 1..Len(entries) :
          i # j /\ entries[i].parent_id = entries[j].parent_id

\* The entries of es that have the largest timestamp
Latest(es) ==
    {e \in Range(es) : \A d \in Range(es) : d.timestamp <= e.timestamp}

C14_Branching ==
    [][(/\ s_op = "branch_to"
        /\ s_raised = NONE
        /\ AddMessage \/ AddMessageSameInstant)
       => LET x == Last(entries')
          IN  /\ Len(entries') = Len(entries) + 1
              /\ x.parent_id = current_id
              /\ current_id' = x.id
              /\ get_path_to_entry(entries', x.id)
                   = Append(get_path_to_entry(entries, current_id), x)
              /\ \A c \in get_children(entries, current_id) :
                    c \in get_children(entries', current_id) /\ c.id # x.id]_vars

\* After one branch_to, an append has made the current entry the second
\* child of an entry that is not the root.
C14_Witness ==
    /\ s_ops = 1
    /\ s_op = "add_message"
    /\ current_id = Last(entries).id
    /\ Last(entries).parent_id \in Ids(entries) \ {root_id}
    /\ Cardinality(get_children(entries, Last(entries).parent_id)) = 2
    /\ Len(get_path_to_entry(entries, current_id)) = 3

\* es is one chain: the first entry has no parent, each other entry has the
\* entry before it as parent
LinearChain(es) ==
    \A i \in 1..Len(es) :
        es[i].parent_id = (IF i = 1 THEN NoId ELSE es[i - 1].id)

\* C15: fork. fork(e) returns a new session whose tree has exactly
\* len(path_to(e)) entries, in one linear chain, with the roles, contents and
\* metadata of path_to(e) in order and with ids that are all different from
\* the ids of the source tree; the entries and the current pointer of the
\* source session are as before.
C15_Fork ==
    [][\A e \in SomeId :
         Fork(e) =>
            LET path == get_path_to_entry(entries, e)
                t    == s_returned'[1]
            IN  /\ Len(t.entries) = Len(path)
                /\ LinearChain(t.entries)
                /\ \A i \in 1..Len(path) :
                      /\ t.entries[i].role = path[i].role
                      /\ t.entries[i].content = path[i].content
                      /\ t.entries[i].metadata = path[i].metadata
                /\ Cardinality(Ids(t.entries)) = Len(path)
                /\ Ids(t.entries) \cap Ids(entries) = {}
                /\ UNCHANGED <<entries, current_id>>]_vars

\* A fork of a branched tree at an entry that is not its tip: the new tree
\* has several entries, fewer than the source.
C15_Witness ==
    /\ s_op = "fork"
    /\ Len(s_returned[1].entries) >= 2
    /\ Len(s_returned[1].entries) < Len(entries)
    /\ \E i, j \in 1..Len(entries) :
          i # j /\ entries[i].parent_id = entries[j].parent_id
    /\ s_returned[1].current_id = Last(s_returned[1].entries).id

\* compact() has added its summary entry
Compacted == s_op = "compact" /\ Len(entries) = Len(s_before) + 1

\* C16: compaction substitutes in the effective path. After compact() on a
\* session whose current path is longer than the threshold, the path that
\* get_current_conversation returns is the summary entry followed by the
\* last KEEP_RECENT entries of the old path; the entries of the compacted
\* prefix are still in the tree and are not in that path.
C16_CompactionSubstitutes ==
    Compacted =>
        LET summary == Last(entries)
            oldpath == get_path_to_entry(entries, summary.parent_id)
            recent  == SubSeq(oldpath, Len(oldpath) - KEEP_RECENT + 1, Len(oldpath))
            prefix  == SubSeq(oldpath, 1, Len(oldpath) - KEEP_RECENT)
        IN  /\ get_current_conversation = <<summary>> \o recent
            /\ \A i \in 1..Len(prefix) :
                  /\ prefix[i] \in Range(entries)
                  /\ prefix[i] \notin Range(get_current_conversation)

\* C34 (compaction threshold and effect): compact() on a current path of at
\* most COMPACT_THRESHOLD entries adds no entry and returns the path; on a
\* longer path of n entries it appends one entry, of role system, whose
\* metadata records the compaction and the prefix length n - KEEP_RECENT,
\* and returns that entry followed by the last KEEP_RECENT entries of the
\* old path; the entries that were in the tree are all still there.
C34_CompactionEffect ==
    s_op = "compact" =>
        IF Len(entries) = Len(s_before)
        THEN /\ entries = s_before
             /\ s_returned = get_current_conversation
             /\ Len(s_returned) <= COMPACT_THRESHOLD
        ELSE LET summary == Last(entries)
                 oldpath == get_path_to_entry(s_before, summary.parent_id)
                 n       == Len(oldpath)
             IN  /\ entries = Append(s_before, summary)
                 /\ summary.id \notin Ids(s_before)
                 /\ n > COMPACT_THRESHOLD
                 /\ summary.role = "system"
                 /\ summary.metadata.compacted = TRUE
                 /\ summary.metadata.original_count = n - KEEP_RECENT
                 /\ s_returned =
                       <<summary>> \o SubSeq(oldpath, n - KEEP_RECENT + 1, n)
                 /\ Len(s_returned) = KEEP_RECENT + 1

\* C34 witness: compact() on a path of COMPACT_THRESHOLD + 1 entries has
\* returned the summary entry and KEEP_RECENT entries
C34_Witness ==
    /\ Compacted
    /\ Len(s_before) = COMPACT_THRESHOLD + 1
    /\ Len(s_returned) = KEEP_RECENT + 1
    /\ s_returned[1].metadata.original_count = COMPACT_THRESHOLD + 1 - KEEP_RECENT

\* compact() has returned a path of exactly COMPACT_THRESHOLD entries as it
\* was
C34_WitnessShort ==
    /\ s_op = "compact"
    /\ entries = s_before
    /\ Len(s_returned) = COMPACT_THRESHOLD

\* C38 (a resumed session keeps persisting): after every add_message, on a
\* session obtained by Session.load as on a newly created one, the session
\* file exists and holds the line of the new entry.
C38_ResumedSessionPersists ==
    (s_op = "add_message" /\ s_raised = NONE) =>
        /\ file.exists
        /\ model_dump_json(s_returned[1]) \in Range(file.lines)

-----------------------------------------------------------------------------
(* Properties of the context files *)

\* C35 (SYSTEM.md, nearest wins): the prompt build_system_prompt returned
\* is the content of a SYSTEM.md of the directory nearest to the workspace
\* among the directories of the chain that had one; with none on the chain
\* it is the content of a global one, and with none at all the default.
C35_NearestSystemMd ==
    ctx_call.prompt # NONE =>
        LET chain == {f \in ctx_call.files : f.level # HOME}
        IN  IF chain # {}
            THEN \E f \in chain :
                    /\ \A g \in chain : f.level <= g.level
                    /\ ctx_call.prompt = read_text(f)
            ELSE IF ctx_call.files # {}
            THEN \E f \in ctx_call.files : ctx_call.prompt = read_text(f)
            ELSE ctx_call.prompt = DEFAULT_PROMPT

-----------------------------------------------------------------------------
(* Properties of the RPC server *)

\* C40 (request/response pairing): run_server has written exactly one line
\* per line it has read; the line for a request carries the id of the
\* request, with the result when the handler returned and the error when it
\* raised; the line for input that is not JSON is an error; and the server
\* has stopped only with every line of the input read, so that a line that
\* is not JSON does not keep the requests after it from being served.
C40_RequestResponsePairing ==
    /\ Len(rpc_stdout) = rpc_read
    /\ \A i \in 1..rpc_read :
          /\ i <= Len(rpc_stdout)
          /\ IF rpc_stdin[i].kind = "not JSON"
             THEN rpc_stdout[i].error # NONE /\ rpc_stdout[i].result = NONE
             ELSE /\ rpc_stdout[i].id = rpc_stdin[i].id
                  /\ rpc_stdin[i].kind = "request" =>
                        /\ rpc_stdout[i].result = <<"result", i>>
                        /\ rpc_stdout[i].error = NONE
                  /\ rpc_stdin[i].kind = "failing request" =>
                        /\ rpc_stdout[i].result = NONE
                        /\ rpc_stdout[i].error = <<"error", i>>
    /\ rpc_pc = "stopped" => rpc_read = Len(rpc_stdin)

-----------------------------------------------------------------------------
(* Properties of the dispatcher *)

\* The error notices handler h has tried to send
ErrorNotices(h) ==
    SelectSeq(b_sends, LAMBDA c : c.handler = h /\ c.kind = "error")

\* C17: the dispatcher never rethrows. handle_message returns normally
\* whatever fails in session resolution, session append, agent run or send,
\* the send of the error notice included; when something has failed it has
\* tried exactly one error notice, to the channel of the message on its
\* platform, with thread_id = m.thread_id if m.is_thread and null otherwise.
C17_NeverRethrows ==
    \A h \in Handlers :
        /\ b_outcome[h] # "raised"
        /\ b_pc[h] = "done" =>
              /\ b_outcome[h] = "returned"
              /\ Len(ErrorNotices(h)) = (IF b_failed[h] THEN 1 ELSE 0)
              /\ \A i \in 1..Len(ErrorNotices(h)) :
                    /\ ErrorNotices(h)[i].platform = b_msg[h].platform
                    /\ ErrorNotices(h)[i].channel_id = b_msg[h].channel_id
                    /\ ErrorNotices(h)[i].thread_id =
                          (IF b_msg[h].is_thread THEN b_msg[h].thread_id ELSE NONE)

\* A handler whose reply could not be sent, and whose error notice could not
\* be sent either, has returned; another one failed before its agent run.
C17_Witness ==
    /\ b_pc["h1"] = "done"
    /\ b_outcome["h1"] = "returned"
    /\ \E i, j \in 1..Len(b_sends) :
          /\ i < j
          /\ b_sends[i].handler = "h1" /\ b_sends[i].kind = "reply" /\ b_sends[i].raised
          /\ b_sends[j].handler = "h1" /\ b_sends[j].kind = "error" /\ b_sends[j].raised
          /\ b_sends[j].thread_id = "t1"
    /\ b_pc["h2"] = "done"
    /\ b_failed["h2"]
    /\ b_llm_input["h2"] = <<>>
    /\ Len(ErrorNotices("h2")) = 1

\* C18: atomic lookup-or-insert. When the handlers of several messages of
\* one (platform, channel_id) run at the same time and the pair has no
\* session yet, all of them obtain the same Session, the one that is in the
\* map, so that no entry is appended to a Session that is not in the map.
C18_AtomicLookupOrInsert ==
    \A h \in Handlers :
        b_session[h] # NONE =>
            /\ sessions[KeyOf(h)] = b_session[h]
            /\ \A g \in Handlers :
                  (b_session[g] # NONE /\ KeyOf(g) = KeyOf(h))
                      => b_session[g] = b_session[h]

\* The handler whose message a message of the agent's history comes from
Origin(m) == m.content[2]

\* C19: sessions are independent. The messages submitted to the provider
\* while a message of channel A is handled contain no message that comes
\* from another (platform, channel).
C19_SessionsIndependent ==
    \A h \in Handlers :
        \A i \in 1..Len(b_llm_input[h]) :
            KeyOf(Origin(b_llm_input[h][i])) = KeyOf(h)

\* Handler h is inside agent.run, between its first and its last append to
\* the history
InTurn(h) == b_pc[h] \in {"run_chat", "run_final"}

\* C20: single writer. No two turns that write the same history overlap,
\* and so the entries a turn appends to the history are contiguous: the
\* response of a turn directly follows its user message.
C20_SingleWriter ==
    /\ \A g, h \in Handlers : (g # h /\ InTurn(g)) => ~InTurn(h)
    /\ \A i \in 1..Len(history) :
          history[i].role = "assistant" =>
              /\ i > 1
              /\ history[i - 1].role = "user"
              /\ Origin(history[i - 1]) = Origin(history[i])

\* C39 (dispatcher sessions survive a restart): the session that
\* get_session returns on a manager built after a restart holds every entry
\* that a session of the same platform and channel had auto-saved.
C39_SessionsSurviveRestart ==
    \A h \in Handlers :
        (managers > 1 /\ b_pc[h] = "append_user") =>
            LET saved == disk[SavePath(SessionName(b_msg[h].platform,
                                                   b_msg[h].channel_id))]
            IN  saved.exists =>
                    Range(load(saved).entries)
                        \subseteq Range(b_trees[b_session[h]].entries)

\* The replies handler h has sent
Replies(h) ==
    SelectSeq(b_sends, LAMBDA c : c.handler = h /\ c.kind = "reply")

\* The places in the entries of a tree of the entries with a role and content
Places(t, role, content) ==
    {i \in 1..Len(t.entries) :
        t.entries[i].role = role /\ t.entries[i].content = content}

\* C29 (dispatcher step order): while the agent runs for a message m, the
\* session that get_session returned for (m.platform, m.channel_id) holds the
\* user entry m.text and neither the assistant entry of the response nor a
\* send exists; when the send is due the assistant entry is there, after the
\* user entry; when m has been handled without error exactly one send was
\* made, on the platform of m, to m.channel_id, with the response and with
\* thread_id = m.thread_id if m.is_thread and null otherwise.
C29_StepOrder ==
    \A h \in Handlers :
        LET m == b_msg[h]
            t == b_trees[b_session[h]]
            r == <<"reply", h>>
        IN  /\ b_pc[h] \in {"run_user", "run_chat", "run_final"} =>
                  /\ Places(t, "user", m.text) # {}
                  /\ Places(t, "assistant", r) = {}
                  /\ b_sends = SelectSeq(b_sends, LAMBDA c : c.handler # h)
            /\ b_pc[h] = "send" =>
                  /\ \E i \in Places(t, "user", m.text) :
                        \E j \in Places(t, "assistant", r) : i < j
                  /\ b_sends = SelectSeq(b_sends, LAMBDA c : c.handler # h)
            /\ (b_pc[h] = "done" /\ ~b_failed[h]) =>
                  /\ SelectSeq(b_sends, LAMBDA c : c.handler = h) = Replies(h)
                  /\ Len(Replies(h)) = 1
                  /\ Replies(h)[1].platform = m.platform
                  /\ Replies(h)[1].channel_id = m.channel_id
                  /\ Replies(h)[1].text = b_response[h]
                  /\ Replies(h)[1].thread_id =
                        (IF m.is_thread THEN m.thread_id ELSE NONE)

\* both messages were handled without error: one of a thread, and one that
\* carries a thread id without being in a thread
C29_Witness ==
    /\ \A h \in Handlers : b_pc[h] = "done" /\ ~b_failed[h]
    /\ b_msg["h1"].is_thread
    /\ ~b_msg["h2"].is_thread /\ b_msg["h2"].thread_id = "t2"
    /\ Len(b_sends) = 2

-----------------------------------------------------------------------------
(* Properties of the observer hooks *)

\* C22 (observer isolation): an exception raised by on_tool_start or by
\* on_tool_end never leaves run(), and when the for loop over a batch is over
\* every call of the batch has its entry in tool_results, so that the batch
\* is appended and the loop goes on to the next provider call.
C22_ObserverIsolation ==
    /\ raised # "HookError"
    /\ (pc = "batch" /\ next_call > Len(tool_calls)) =>
           \A i \in 1..Len(tool_calls) :
               \E j \in 1..Len(tool_results) :
                   tool_results[j].tool_call_id = tool_calls[i].id

-----------------------------------------------------------------------------
(* Properties of a failing provider call *)

\* Every assistant entry with tool calls is followed at once by tool entries
\* for exactly its calls, and every tool entry follows such an entry
CompleteBatches(h) ==
    /\ \A i \in 1..Len(h) :
          h[i].tool_calls # <<>> =>
              \E j \in i..Len(h) :
                  /\ \A k \in (i + 1)..j : h[k].role = "tool"
                  /\ j = Len(h) \/ h[j + 1].role # "tool"
                  /\ {h[k].tool_call_id : k \in (i + 1)..j}
                         = {h[i].tool_calls[c].id : c \in 1..Len(h[i].tool_calls)}
    /\ \A k \in 1..Len(h) :
          h[k].role = "tool" =>
              k > 1 /\ (h[k - 1].role = "tool" \/ h[k - 1].tool_calls # <<>>)

\* C28 (provider failure leaves a consistent history): the history never
\* holds a partial batch; when a provider call raises, the exception leaves
\* run(), the history is the one that was handed to that call, starting with
\* the user message, and the failing call leaves the queue as it was.
C28_ProviderFailure ==
    /\ [](CompleteBatches(history))
    /\ [](raised = "ProviderError" =>
             /\ pc = "raised"
             /\ history = llm_input
             /\ history[1] = Message("user", Text("A")))
    /\ [][turn_calls' = turn_calls + 1 /\ raised' = "ProviderError" =>
             queue' = queue]_vars

\* the provider call after a finished batch with a steering entry has raised
C28_Witness ==
    /\ raised = "ProviderError"
    /\ \E i \in 1..Len(history) : history[i].role = "tool"
    /\ Last(history).role = "user"

\* C32 (one tool entry per tool call): once a batch is over, the history
\* holds the assistant entry with the provider's tool calls, then exactly one
\* tool entry per call, in the order of the calls, each with the id and the
\* name of its call, then the steering entries drained after the batch;
\* whether the tools and the hooks return or raise.
C32_OneEntryPerCall ==
    AfterBatch =>
        /\ Len(batch_log.tools) = Len(tool_calls)
        /\ \A i \in 1..Len(tool_calls) :
              /\ i <= Len(batch_log.tools)
              /\ batch_log.tools[i].role = "tool"
              /\ batch_log.tools[i].tool_call_id = tool_calls[i].id
              /\ batch_log.tools[i].name = tool_calls[i].name
        /\ EndsWith(history,
                    <<AssistantToolCalls(Text(""), tool_calls)>>
                      \o batch_log.tools \o UserEntries(batch_log.steering))

\* C33 (empty arguments default to {}): the pass of the loop over a tool
\* call whose arguments string is empty, the hooks returning, raises nothing
\* out of run(), leaves run() in the batch and adds a tool entry for the
\* call.
C33_EmptyArgumentsDefault ==
    [][(/\ pc = "batch"
        /\ next_call <= Len(tool_calls)
        /\ next_call' = next_call + 1
        /\ tool_calls[next_call].arguments = ARGS_EMPTY
        /\ on_tool_start = "ok"
        /\ on_tool_end = "ok")
       => /\ raised' = NONE
          /\ pc' = "batch"
          /\ Len(tool_results') = Len(tool_results) + 1
          /\ Last(tool_results').tool_call_id = tool_calls[next_call].id]_vars

-----------------------------------------------------------------------------
(* Properties of the queue shared by two threads *)

\* The messages the input thread added after the dequeuing call started
AddedSince == {enqueued[i] : i \in 1..Len(enqueued)} \ Range(q_before)

\* C21 (atomic queue operations): when a dequeuing call (get_steering_messages,
\* get_followup_messages or clear) has returned, every message the input
\* thread added while it ran is in the list it returned or still in the queue.
C21_NoLostMessage ==
    dq_pc = "returned" =>
        \A m \in AddedSince : m \in Range(q_returned) \/ m \in Range(queue)

-----------------------------------------------------------------------------
(* Properties of the extension events *)

\* C23 (handler isolation): emit(event, data) calls the handlers registered
\* for the event, each once per registration and in registration order,
\* whether or not some of them raise, and no exception leaves emit.
C23_HandlersIsolated ==
    [][\A e \in Events :
          Emit(e) => /\ em_last'.calls = event_handlers[e]
                     /\ em_last'.raised = NONE]_vars

\* an emit has called a handler that raised and, after it, one that returned
C23_Witness ==
    /\ em_last.event # NONE
    /\ \E i, j \in 1..Len(em_last.calls) :
          i < j /\ em_last.calls[i].raises /\ ~em_last.calls[j].raises

-----------------------------------------------------------------------------
(* Properties of the tool registry *)

\* the names registered
RegNames(tools) == {tools[i].name : i \in 1..Len(tools)}

\* C24 (registry uniqueness): the registry never holds two tools of one name;
\* register(tool) of a name that is already registered leaves the size as it
\* was, and after any register(tool) the lookup of tool.name that execute
\* makes finds exactly that tool.
C24_RegistryUnique ==
    /\ [](\A i, j \in 1..Len(reg_tools) :
             reg_tools[i].name = reg_tools[j].name => i = j)
    /\ [][\A t \in RegTools :
             Register(t) =>
                 /\ t.name \in RegNames(reg_tools) => Len(reg_tools') = Len(reg_tools)
                 /\ registry_get(reg_tools', t.name) = <<t>>]_vars

\* a tool has just been registered under a name that already held another
\* tool, while a tool of another name is registered too
C24_Witness ==
    /\ reg_last.op = "register"
    /\ reg_last.held
    /\ Len(reg_tools) = 2
    /\ \E i \in 1..2 : reg_tools[i].name = reg_last.name /\ reg_tools[i].func = 2

-----------------------------------------------------------------------------
(* Properties of the file references *)

\* C25 (workspace containment): a resolve_file call whose reference resolves
\* to a path that is not the workspace root or below it returns exists =
\* False with an error and reads nothing; no call reads a file that is not
\* below the workspace root.
C25_WorkspaceContainment ==
    /\ ~startswith(Resolve(Workspace \o fr_call.reference, <<>>), Workspace) =>
           ~fr_call.exists /\ fr_call.read = {}
    /\ \A f \in fr_call.read : startswith(f, Workspace)

-----------------------------------------------------------------------------
(* Properties of the coding agent's turn *)

\* the (role, content) pairs of a list of messages or of entries
RoleContent(ms) == [i \in 1..Len(ms) |-> <<ms[i].role, ms[i].content>>]

\* C26 (history mirrored in the session): when a turn is over, the current
\* path of the session has the roles and contents of the agent's history, in
\* the same order (the agent has no system prompt here).
C26_HistoryMirrored ==
    pc = "recorded" =>
        RoleContent(get_current_conversation) = RoleContent(history)

-----------------------------------------------------------------------------
(* Properties of the session file *)

\* C27 (atomic persistence): a Session.load that runs while a save of the
\* same file is in progress raises nothing and returns either the entries
\* the file held before the save or the entries being saved.
C27_AtomicPersistence ==
    [][(LoadByOther /\ w_pending # <<>> /\ w_before.exists) =>
           /\ s_raised' = NONE
           /\ s_returned' \in {load(w_before).entries, entries}]_vars

====
